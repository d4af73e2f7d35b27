------------------------- MODULE SpectrometerProofs -------------------------
(***************************************************************************)
(* Theorems about Spectrometer, for every set of workers, every set of     *)
(* frame shapes and every queue size.                                      *)
(***************************************************************************)
EXTENDS Spectrometer, TLAPS

(* The type of a frame built from a shape.                                  *)
LEMMA FrameOfType ==
  ASSUME NEW n \in 0..MaxFrames, NEW s \in Shapes
  PROVE  FrameOf(n, s) \in FrameSet
BY SpectrometerAssumption DEF FrameOf, FrameSet, ShapeType

(* Whatever an access touches, the kinds of fault it can add.               *)
LEMMA FaultKinds ==
  /\ \A l, n : BufferFault(l, n) \subseteq {"null", "short"}
  /\ \A f, p, n : FrameFault(f, p, n) \subseteq {"overrun"}
  /\ \A f, i : RowFault(f, i) \subseteq {"overrun"} /\ ColumnFault(f, i) \subseteq {"overrun"}
BY DEF BufferFault, FrameFault, RowFault, ColumnFault

(* Sums of naturals are naturals.                                           *)
LEMMA NatSum == \A a, b \in Nat : a + b \in Nat /\ a + 1 \in Nat
OBVIOUS

(* Products of naturals are naturals.                                       *)
LEMMA ProductNat == \A a, b \in Nat : a * b \in Nat
OBVIOUS

(* Appending keeps the type of a sequence.                                  *)
LEMMA AppendType == \A S, s, e : s \in Seq(S) /\ e \in S => Append(s, e) \in Seq(S)
OBVIOUS

(* A reallocation keeps the types of what it replaces.                      *)
LEMMA ResizeType ==
  ASSUME TypeOK, NEW d \in Dims, NEW n \in Nat, Resize(d, n)
  PROVE  /\ size' \in [Dims -> Nat] /\ len' \in [Dims -> Nat \cup {Null}]
         /\ avg' \in [Dims -> Contributors] /\ cut' \in [Dims -> Contributors]
<1>1. {Junk} \in Contributors
  BY SpectrometerAssumption DEF Contributors, Junk
<1>2. CASE n # size[d]
  BY <1>1, <1>2 DEF Resize, TypeOK
<1>3. CASE n = size[d]
  BY <1>3 DEF Resize, TypeOK
<1> QED
  BY <1>2, <1>3

(* Every variable keeps its type: the base of all invariants of the plugin. *)
THEOREM TypeCorrect == Spec => []TypeOK
<1>1. Init => TypeOK
  <2> SUFFICES ASSUME Init PROVE TypeOK
    OBVIOUS
  <2>1. /\ {Junk} \in Contributors /\ {} \in Contributors
        /\ Junk \in 0..MaxFrames /\ MaxFrames \in Nat
    BY SpectrometerAssumption DEF Contributors, Junk
  <2>2. NoFrame \in FrameSet
    BY <2>1 DEF NoFrame, FrameSet
  <2>3. NoBld \in [width : Nat \cup {Null}, len : Nat, from : Contributors]
    BY <2>1 DEF NoBld
  <2>4. AllOff \in Switches
    BY DEF AllOff, Switches
  <2>5. size \in [Dims -> Nat]
    BY SpectrometerAssumption DEF Init
  <2>6. posted \in 0..MaxFrames /\ queue \in Seq(FrameSet) /\ packets = <<>>
    BY <2>1 DEF Init
  <2>7. /\ pv \in [{"centroid", "average", "cut", "proj"} ->
               [by : 0..MaxFrames, from : Contributors, fresh : BOOLEAN]]
        /\ pc \in [Workers -> PC]
    BY <2>1 DEF Init, PC
  <2>8. /\ len \in [Dims -> Nat \cup {Null}] /\ avg \in [Dims -> Contributors]
        /\ cut \in [Dims -> Contributors] /\ centroid \in [Dims -> Contributors]
    BY <2>1 DEF Init
  <2>9. /\ frame \in [Workers -> FrameSet] /\ want \in [Workers -> Switches]
        /\ row \in [Workers -> Nat] /\ pos \in [Workers -> Nat]
        /\ bld \in [Workers -> [width : Nat \cup {Null}, len : Nat, from : Contributors]]
    BY <2>2, <2>3, <2>4 DEF Init
  <2>10. lock \in Workers \cup {NoWorker} /\ faults = {}
    BY DEF Init
  <2>11. packets \in Seq([frame : FrameSet, width : Nat \cup {Null}, from : Contributors])
    BY <2>6
  <2> QED
    BY <2>5, <2>6, <2>7, <2>8, <2>9, <2>10, <2>11 DEF TypeOK
<1>2. TypeOK /\ [Next]_vars => TypeOK'
  <2> SUFFICES ASSUME TypeOK, [Next]_vars PROVE TypeOK'
    OBVIOUS
  <2>0. /\ MaxFrames \in Nat /\ 0 \in 0..MaxFrames
        /\ Cursors \subseteq Nat
        /\ NoFrame \in FrameSet /\ AllOff \in Switches
        /\ NoBld \in [width : Nat \cup {Null}, len : Nat, from : Contributors]
    BY SpectrometerAssumption
       DEF NoFrame, FrameSet, Junk, AllOff, Switches, NoBld, Contributors
  <2>1. CASE \E s \in Shapes : Post(s)
    <3>1. PICK s \in Shapes : Post(s)
      BY <2>1
    <3>2. posted' \in 0..MaxFrames
      BY <2>0, <3>1 DEF Post, TypeOK
    <3>3. FrameOf(posted + 1, s) \in FrameSet
      BY <3>1, <3>2, FrameOfType DEF Post
    <3>4. queue' \in Seq(FrameSet)
      BY <3>1, <3>3 DEF Post, TypeOK
    <3> QED
      BY <3>1, <3>2, <3>4 DEF Post, TypeOK, shared, output, local
  <2>2. ASSUME NEW w \in Workers, Receive(w) \/ Enter(w) PROVE TypeOK'
    <3>1. CASE Receive(w)
      <4>1. Head(queue) \in FrameSet /\ Tail(queue) \in Seq(FrameSet)
        BY <3>1 DEF Receive, TypeOK
      <4> QED
        BY <3>1, <4>1 DEF Receive, Goto, TypeOK, shared, output, PC
    <3>2. CASE Enter(w)
      <4>1. want' \in [Workers -> Switches]
        BY <3>2 DEF Enter, TypeOK
      <4>2. lock' \in Workers \cup {NoWorker} /\ pc' \in [Workers -> PC]
        BY <3>2 DEF Enter, Acquire, Goto, TypeOK, PC
      <4> QED
        BY <3>2, <4>1, <4>2 DEF Enter, TypeOK, input, shared, output
    <3> QED
      BY <2>2, <3>1, <3>2
  <2>3. ASSUME NEW w \in Workers, ResizeX(w) \/ ResizeY(w) PROVE TypeOK'
    <3>1. frame[w].w \in Nat /\ frame[w].h \in Nat
      BY DEF TypeOK, FrameSet
    <3>2. CASE ResizeX(w)
      BY <3>1, <3>2, ResizeType DEF ResizeX, Goto, TypeOK, input, output, local, PC, Dims
    <3>3. CASE ResizeY(w)
      BY <3>1, <3>3, ResizeType DEF ResizeY, Goto, TypeOK, input, output, local, PC, Dims
    <3> QED
      BY <2>3, <3>2, <3>3
  <2>4. ASSUME NEW w \in Workers, Centroid(w) PROVE TypeOK'
    <3> frame[w].id \in 0..MaxFrames /\ frame[w].usable \in BOOLEAN
      BY DEF TypeOK, FrameSet
    <3> Both(centroid) \in Contributors /\ Both(avg) \in Contributors
      BY DEF TypeOK, Both, Dims, Contributors
    <3> USE DEF Goto, TypeOK, input, output, local, shared, PC
    <3>1. CASE CentroidBegin(w)
      BY <3>1 DEF CentroidBegin, Unlock
    <3>2. CASE CentroidRefused(w)
      BY <3>2 DEF CentroidRefused, PublishCentroid, Output
    <3>3. CASE CentroidOff(w)
      BY <3>3 DEF CentroidOff
    <3>4. CASE CentroidClear(w)
      <4>1. faults' \subseteq {"null", "short", "overrun", "junk"}
        BY <3>4, FaultKinds DEF CentroidClear
      <4> QED
        BY <3>4, <4>1 DEF CentroidClear, Contributors
    <3>5. CASE CentroidRow(w)
      <4>1. pos[w] + size["x"] \in Nat /\ row[w] + 1 \in Nat
        <5>1. pos[w] \in Nat /\ row[w] \in Nat /\ size["x"] \in Nat
          BY DEF Dims
        <5> QED
          BY <5>1, NatSum, Zenon
      <4>2. avg' \in [Dims -> Contributors]
        BY <3>5 DEF CentroidRow, Contributors
      <4>3. row' \in [Workers -> Nat] /\ pos' \in [Workers -> Nat]
        BY <3>5, <4>1 DEF CentroidRow
      <4>4. faults' \subseteq {"null", "short", "overrun", "junk"}
        BY <3>5, FaultKinds DEF CentroidRow
      <4> QED
        BY <3>5, <4>2, <4>3, <4>4 DEF CentroidRow
    <3>6. CASE CentroidReduceX(w)
      <4>1. faults' \subseteq {"null", "short", "overrun", "junk"}
        BY <3>6, FaultKinds DEF CentroidReduceX
      <4> QED
        BY <3>6, <4>1 DEF CentroidReduceX, Dims
    <3>7. CASE CentroidReduceY(w)
      <4>1. faults' \subseteq {"null", "short", "overrun", "junk"}
        BY <3>7, FaultKinds DEF CentroidReduceY
      <4> QED
        BY <3>7, <4>1 DEF CentroidReduceY, Dims
    <3>8. CASE CentroidEnd(w)
      BY <3>8 DEF CentroidEnd, Acquire, PublishCentroid, Output
    <3> QED
      BY <2>4, <3>1, <3>2, <3>3, <3>4, <3>5, <3>6, <3>7, <3>8 DEF Centroid
  <2>5. ASSUME NEW w \in Workers, Profiles(w) PROVE TypeOK'
    <3> frame[w].id \in 0..MaxFrames /\ want[w].centroid \in BOOLEAN
      BY DEF TypeOK, FrameSet, Switches, Flags
    <3> Both(cut) \in Contributors /\ Both(avg) \in Contributors
      BY DEF TypeOK, Both, Dims, Contributors
    <3> USE DEF Goto, TypeOK, input, output, local, shared, PC
    <3>1. CASE ProfilesBegin(w)
      BY <3>1 DEF ProfilesBegin, Unlock
    <3>2. CASE ProfilesOff(w)
      BY <3>2 DEF ProfilesOff
    <3>3. CASE CutX(w)
      <4>1. faults' \subseteq {"null", "short", "overrun", "junk"}
        BY <3>3, FaultKinds DEF CutX
      <4>2. cut' \in [Dims -> Contributors]
        BY <3>3 DEF CutX, Contributors
      <4> QED
        BY <3>3, <4>1, <4>2 DEF CutX
    <3>4. CASE CutY(w)
      <4>1. faults' \subseteq {"null", "short", "overrun", "junk"}
        BY <3>4, FaultKinds DEF CutY
      <4>2. cut' \in [Dims -> Contributors]
        BY <3>4 DEF CutY, Contributors
      <4> QED
        BY <3>4, <4>1, <4>2 DEF CutY
    <3>5. CASE ProfilesEnd(w)
      <4>1. faults' \subseteq {"null", "short", "overrun", "junk"}
        BY <3>5, FaultKinds DEF ProfilesEnd
      <4> QED
        BY <3>5, <4>1 DEF ProfilesEnd, Acquire, Output
    <3> QED
      BY <2>5, <3>1, <3>2, <3>3, <3>4, <3>5 DEF Profiles
  <2>6. ASSUME NEW w \in Workers, Projections(w) PROVE TypeOK'
    <3> frame[w].id \in 0..MaxFrames
      BY DEF TypeOK, FrameSet
    <3> USE DEF Goto, TypeOK, input, output, local, shared, PC
    <3>1. CASE ProjectionsBegin(w)
      BY <3>1 DEF ProjectionsBegin, Unlock
    <3>2. CASE ProjectionsRefused(w)
      BY <3>2 DEF ProjectionsRefused
    <3>3. CASE ProjectionsOff(w)
      BY <3>3 DEF ProjectionsOff
    <3>4. CASE ProjectionClear(w)
      BY <3>4 DEF ProjectionClear, Contributors, Dims
    <3>5. CASE ProjectionRow(w)
      <4>1. pos[w] + size["x"] \in Nat /\ row[w] + 1 \in Nat
        <5>1. pos[w] \in Nat /\ row[w] \in Nat /\ size["x"] \in Nat
          BY DEF Dims
        <5> QED
          BY <5>1, NatSum, Zenon
      <4>2. bld' \in [Workers -> [width : Nat \cup {Null}, len : Nat, from : Contributors]]
        <5>1. bld[w].from \cup {frame[w].id} \in Contributors
          BY DEF Contributors
        <5> QED
          BY <3>5, <5>1 DEF ProjectionRow
      <4>3. row' \in [Workers -> Nat] /\ pos' \in [Workers -> Nat]
        BY <3>5, <4>1 DEF ProjectionRow
      <4>4. faults' \subseteq {"null", "short", "overrun", "junk"}
        BY <3>5, FaultKinds DEF ProjectionRow
      <4> QED
        BY <3>5, <4>2, <4>3, <4>4 DEF ProjectionRow
    <3>6. CASE ProjectionEnd(w)
      <4>1. faults' \subseteq {"null", "short", "overrun", "junk"}
        BY <3>6, FaultKinds DEF ProjectionEnd
      <4>2. bld[w].from \in Contributors
        OBVIOUS
      <4> QED
        BY <3>6, <4>1, <4>2 DEF ProjectionEnd, Acquire, Output
    <3> QED
      BY <2>6, <3>1, <3>2, <3>3, <3>4, <3>5, <3>6 DEF Projections
  <2>7. ASSUME NEW w \in Workers, SendBld(w) \/ SendSkipped(w) \/ Finish(w) PROVE TypeOK'
    <3> USE DEF Goto, TypeOK, input, output, local, shared, PC
    <3>1. CASE SendBld(w)
      <4> DEFINE p == [frame |-> frame[w], width |-> bld[w].width, from |-> bld[w].from]
      <4>1. p \in [frame : FrameSet, width : Nat \cup {Null}, from : Contributors]
        OBVIOUS
      <4>2. packets' \in Seq([frame : FrameSet, width : Nat \cup {Null}, from : Contributors])
        <5>1. packets' = Append(packets, p)
          BY <3>1 DEF SendBld
        <5> QED
          BY <4>1, <5>1, AppendType, Zenon
      <4>3. faults' \subseteq {"null", "short", "overrun", "junk"}
        <5> DEFINE fault == IF bld[w].width = Null THEN {"junk"}
                            ELSE BufferFault(bld[w].len, bld[w].width)
        <5>1. faults' = faults \cup fault
          BY <3>1 DEF SendBld
        <5>2. fault \subseteq {"null", "short", "junk"}
          BY FaultKinds, Zenon
        <5>3. faults \subseteq {"null", "short", "overrun", "junk"}
          OBVIOUS
        <5> HIDE DEF fault, TypeOK
        <5> QED
          BY <5>1, <5>2, <5>3
      <4> QED
        BY <3>1, <4>2, <4>3 DEF SendBld
    <3>2. CASE SendSkipped(w)
      BY <3>2 DEF SendSkipped
    <3>3. CASE Finish(w)
      BY <2>0, <3>3 DEF Finish, Unlock
    <3> QED
      BY <2>7, <3>1, <3>2, <3>3
  <2>8. CASE AtRest \/ UNCHANGED vars
    BY <2>8 DEF AtRest, vars, input, shared, output, local, TypeOK
  <2> QED
    BY <2>1, <2>2, <2>3, <2>4, <2>5, <2>6, <2>7, <2>8 DEF Next, Camera, Worker
<1> QED
  BY <1>1, <1>2, PTL DEF Spec

-----------------------------------------------------------------------------
(* Memory safety holds when the object is not shared while it changes: one  *)
(* worker, or frames that all have one shape.                               *)
OneWorker == \A v, w \in Workers : v = w
OneShape == \A s, t \in Shapes : s.w = t.w /\ s.h = t.h
NotShared == OneWorker \/ OneShape

(* Faults that are harmless on their own are harmless together.             *)
LEMMA HarmlessUnion ==
  ASSUME NEW F, NEW G, Harmless(F), Harmless(G)
  PROVE  Harmless(F \cup G)
BY DEF Harmless

(* Row i of a frame, read with the frame's own width, lies in the frame.    *)
LEMMA RowInFrame ==
  ASSUME NEW i \in Nat, NEW m \in Nat, NEW n \in Nat, i < n
  PROVE  i * m + m <= m * n
<1>1. PICK k \in Nat : n = i + 1 + k
  <2>1. n - i - 1 \in Nat /\ n = i + 1 + (n - i - 1)
    OBVIOUS
  <2> QED
    BY <2>1
<1>2. m * n = i * m + m + k * m
  BY <1>1
<1>3. k * m \in Nat
  BY <1>1
<1> QED
  BY <1>2, <1>3

(* A buffer accessed after the resizing of the same callback is long enough *)
(* or was never allocated.                                                  *)
LEMMA BufferHarmless ==
  ASSUME TypeOK, MemoryInv, NEW w \in Workers, pc[w] \notin BeforeY,
         NEW d \in Dims, NEW n \in Nat, n <= size[d]
  PROVE  Harmless(BufferFault(len[d], n))
<1>1. size[d] \in Nat /\ len[d] \in Nat \cup {Null}
  BY DEF TypeOK
<1>2. CASE len[d] = size[d]
  BY <1>1, <1>2 DEF BufferFault, Harmless, Null
<1>3. CASE len[d] = Null /\ size[d] \in GarbageSizes
  <2>1. CASE n = 0
    BY <2>1 DEF BufferFault, Harmless
  <2>2. CASE n # 0
    <3>1. pc[w] # "idle" /\ pc[w] \notin BeforeX
      BY DEF BeforeX, BeforeY
    <3>2. PICK s \in Shapes : frame[w].w = s.w /\ frame[w].h = s.h
      BY <3>1 DEF MemoryInv, FramesShaped, Shaped
    <3>3. size["x"] = s.w /\ size["y"] = s.h
      BY <3>1, <3>2 DEF MemoryInv, SizeOfFrame
    <3>4. size[d] # 0 /\ size[d] \in {s.w, s.h}
      BY <1>1, <2>2, <3>3 DEF Dims
    <3>5. GarbageIsAFrameSize
      BY <1>3, <3>4 DEF GarbageIsAFrameSize
    <3> QED
      BY <1>3, <2>2, <3>5 DEF BufferFault, Harmless
  <2> QED
    BY <2>1, <2>2
<1> QED
  BY <1>2, <1>3 DEF MemoryInv, BuffersFit

(* The dimensions of a frame beyond the resizing, and of the object.        *)
LEMMA FrameDimensions ==
  ASSUME TypeOK, MemoryInv, NEW w \in Workers, pc[w] \notin BeforeY
  PROVE  /\ size["x"] \in Nat /\ size["y"] \in Nat
         /\ size["x"] = 0 <=> size["y"] = 0
         /\ Pixels(frame[w]) = size["x"] * size["y"]
<1>1. size["x"] \in Nat /\ size["y"] \in Nat
  BY DEF TypeOK, Dims
<1>2. size["x"] = frame[w].w /\ size["y"] = frame[w].h
  BY DEF MemoryInv, SizeOfFrame, BeforeX, BeforeY
<1>3. PICK s \in Shapes : frame[w].w = s.w /\ frame[w].h = s.h
  BY DEF MemoryInv, FramesShaped, Shaped, BeforeX, BeforeY
<1> QED
  BY <1>1, <1>2, <1>3, SpectrometerAssumption DEF Pixels

(* The loops over a frame read inside the frame.                            *)
LEMMA LoopHarmless ==
  ASSUME TypeOK, MemoryInv, NEW w \in Workers, pc[w] \in {"sweep", "project"},
         row[w] < size["y"]
  PROVE  Harmless(FrameFault(frame[w], pos[w], size["x"]))
<1>1. row[w] \in Nat
  BY DEF TypeOK
<1>2. pc[w] \notin BeforeY
  BY DEF BeforeX, BeforeY
<1>3. pos[w] = row[w] * size["x"]
  BY DEF MemoryInv, LoopsInFrame
<1>4. pos[w] + size["x"] <= Pixels(frame[w])
  BY <1>1, <1>2, <1>3, FrameDimensions, RowInFrame
<1> QED
  BY <1>4 DEF FrameFault, Harmless

(* The clamped row and column lie in the frame.                             *)
LEMMA CutHarmless ==
  ASSUME TypeOK, MemoryInv, NEW w \in Workers, pc[w] \notin BeforeY, NEW c \in Nat
  PROVE  Harmless(RowFault(frame[w], c)) /\ Harmless(ColumnFault(frame[w], c))
<1> DEFINE m == size["x"]
           n == size["y"]
<1>1. /\ m \in Nat /\ n \in Nat /\ (m = 0 <=> n = 0)
      /\ Pixels(frame[w]) = m * n
  BY FrameDimensions
<1>2. CASE n = 0
  BY <1>1, <1>2 DEF RowFault, ColumnFault, FrameFault, Harmless
<1>3. CASE n # 0
  <2>1. m > 0 /\ n > 0
    BY <1>1, <1>3
  <2>2. Clamp(c, n) \in Nat /\ Clamp(c, n) < n /\ Clamp(c, m) \in Nat /\ Clamp(c, m) < m
    BY <1>1, <2>1 DEF Clamp
  <2>3. Clamp(c, n) * m + m <= m * n
    BY <1>1, <2>2, RowInFrame
  <2>4. n - 1 \in Nat /\ n - 1 < n /\ (n - 1) * m + m <= m * n
    BY <1>1, <2>1, RowInFrame
  <2>5. Clamp(c, m) + (n - 1) * m + 1 <= m * n
    <3>1. (n - 1) * m \in Nat /\ m * n \in Nat
      BY <1>1, <2>4, ProductNat
    <3> QED
      BY <1>1, <2>2, <2>4, <3>1
  <2> QED
    BY <1>1, <2>3, <2>5 DEF RowFault, ColumnFault, FrameFault, Harmless
<1> QED
  BY <1>2, <1>3

(* A step of worker w that leaves the sizes, the buffers, the frames and    *)
(* the other workers' local state alone keeps the invariant if w's own part *)
(* and the new faults are in order.                                         *)
LEMMA QuietStep ==
  ASSUME TypeOK, MemoryInv, NEW w \in Workers, NEW l \in PC,
         pc[w] \notin BeforeY, l \notin BeforeY, Goto(w, l),
         UNCHANGED <<queue, size, len, frame>>,
         \A v \in Workers \ {w} : row'[v] = row[v] /\ pos'[v] = pos[v] /\ bld'[v] = bld[v],
         l \in {"sweep", "project"} => pos'[w] = row'[w] * size["x"] /\ row'[w] <= size["y"],
         bld'[w].width <= bld'[w].len,
         l = "project" => bld'[w].len = size["x"] /\ bld'[w].width = size["x"],
         Harmless(faults')
  PROVE  MemoryInv'
<1>1. pc'[w] = l /\ \A v \in Workers \ {w} : pc'[v] = pc[v]
  BY DEF Goto, TypeOK
<1>2. FramesShaped'
  BY <1>1 DEF MemoryInv, FramesShaped, Shaped, BeforeX, BeforeY
<1>3. SizeOfFrame'
  BY <1>1 DEF MemoryInv, SizeOfFrame, BeforeX, BeforeY
<1>4. BuffersFit'
  BY DEF MemoryInv, BuffersFit
<1>5. LoopsInFrame'
  BY <1>1 DEF MemoryInv, LoopsInFrame
<1>6. ProjectionFits'
  BY <1>1 DEF MemoryInv, ProjectionFits
<1> QED
  BY <1>2, <1>3, <1>4, <1>5, <1>6 DEF MemoryInv, MemorySafe

(* The constructor establishes the invariant: no buffers, nothing running.  *)
LEMMA MemoryInit == Init => MemoryInv
<1> SUFFICES ASSUME Init PROVE MemoryInv
  OBVIOUS
<1>1. FramesShaped /\ SizeOfFrame /\ LoopsInFrame
  BY DEF Init, FramesShaped, SizeOfFrame, LoopsInFrame, BeforeX, BeforeY
<1>2. BuffersFit
  BY DEF Init, BuffersFit
<1>3. ProjectionFits
  BY DEF Init, ProjectionFits, NoBld, Null
<1>4. MemorySafe
  BY DEF Init, MemorySafe, Harmless
<1> QED
  BY <1>1, <1>2, <1>3, <1>4 DEF MemoryInv

(* Frames enter the plugin with the shape they were offered in.             *)
LEMMA ArrivalKeepsMemory ==
  ASSUME TypeOK, MemoryInv
  PROVE  /\ \A s \in Shapes : Post(s) => MemoryInv'
         /\ \A w \in Workers : Receive(w) \/ Enter(w) => MemoryInv'
<1>1. ASSUME NEW s \in Shapes, Post(s) PROVE MemoryInv'
  <2>1. \A i \in 1..Len(queue') : Shaped(queue'[i])
    <3>1. Shaped(FrameOf(posted + 1, s))
      BY DEF Shaped, FrameOf
    <3>2. queue \in Seq(FrameSet) /\ \A i \in 1..Len(queue) : Shaped(queue[i])
      BY DEF TypeOK, MemoryInv, FramesShaped
    <3>3. CASE queue' = queue
      BY <3>2, <3>3
    <3>4. CASE queue' = Append(queue, FrameOf(posted + 1, s))
      BY <3>1, <3>2, <3>4
    <3> QED
      BY <1>1, <3>3, <3>4 DEF Post
  <2> QED
    BY <1>1, <2>1 DEF Post, shared, output, local, MemoryInv, FramesShaped, SizeOfFrame,
       BuffersFit, LoopsInFrame, ProjectionFits, MemorySafe, Shaped
<1>2. ASSUME NEW w \in Workers, Receive(w) PROVE MemoryInv'
  <2>1. /\ pc[w] = "idle" /\ pc'[w] = "enter" /\ frame'[w] = Head(queue)
        /\ \A v \in Workers \ {w} : pc'[v] = pc[v] /\ frame'[v] = frame[v]
        /\ queue' = Tail(queue) /\ queue # <<>> /\ queue \in Seq(FrameSet)
        /\ UNCHANGED <<size, len, row, pos, bld, faults>>
    BY <1>2 DEF Receive, Goto, TypeOK, shared
  <2>2. /\ Shaped(Head(queue))
        /\ \A i \in 1..Len(queue') : Shaped(queue'[i])
    BY <2>1 DEF MemoryInv, FramesShaped
  <2>3. FramesShaped'
    BY <2>1, <2>2 DEF MemoryInv, FramesShaped, Shaped
  <2>4. SizeOfFrame' /\ LoopsInFrame'
    BY <2>1 DEF MemoryInv, SizeOfFrame, LoopsInFrame, BeforeX, BeforeY
  <2>5. BuffersFit' /\ ProjectionFits' /\ MemorySafe'
    BY <2>1 DEF MemoryInv, BuffersFit, ProjectionFits, MemorySafe
  <2> QED
    BY <2>3, <2>4, <2>5 DEF MemoryInv
<1>3. ASSUME NEW w \in Workers, Enter(w) PROVE MemoryInv'
  <2>1. /\ pc[w] = "enter" /\ pc'[w] = "resize x"
        /\ \A v \in Workers \ {w} : pc'[v] = pc[v]
        /\ UNCHANGED <<queue, frame, size, len, row, pos, bld, faults>>
    BY <1>3 DEF Enter, Goto, TypeOK, shared, input
  <2>2. FramesShaped' /\ SizeOfFrame' /\ LoopsInFrame'
    BY <2>1 DEF MemoryInv, FramesShaped, Shaped, SizeOfFrame, LoopsInFrame, BeforeX, BeforeY
  <2>3. BuffersFit' /\ ProjectionFits' /\ MemorySafe'
    BY <2>1 DEF MemoryInv, BuffersFit, ProjectionFits, MemorySafe
  <2> QED
    BY <2>2, <2>3 DEF MemoryInv
<1> QED
  BY <1>1, <1>2, <1>3

(* A resize follows the frame of its own worker and, the object not being   *)
(* shared, changes nothing under another worker's computation.              *)
LEMMA ResizeKeepsMemory ==
  ASSUME TypeOK, MemoryInv, NotShared, NEW w \in Workers, ResizeX(w) \/ ResizeY(w)
  PROVE  MemoryInv'
<1>1. frame[w] \in FrameSet /\ frame[w].w \in Nat /\ frame[w].h \in Nat
  BY DEF TypeOK, FrameSet
<1>2. ASSUME NEW v \in Workers, v # w, pc[v] # "idle", pc[w] # "idle"
      PROVE  frame[v].w = frame[w].w /\ frame[v].h = frame[w].h
  <2>1. OneShape
    BY <1>2 DEF NotShared, OneWorker
  <2> QED
    BY <1>2, <2>1 DEF OneShape, MemoryInv, FramesShaped, Shaped
<1>3. CASE ResizeX(w)
  <2>1. /\ pc[w] = "resize x" /\ pc'[w] = "resize y"
        /\ \A v \in Workers \ {w} : pc'[v] = pc[v]
        /\ UNCHANGED <<queue, frame, row, pos, bld, faults>>
    BY <1>3 DEF ResizeX, Goto, TypeOK, local, input
  <2>2. /\ size'["x"] = frame[w].w /\ size'["y"] = size["y"]
        /\ len'["y"] = len["y"]
        /\ len'["x"] = frame[w].w \/ (len'["x"] = len["x"] /\ size'["x"] = size["x"])
    BY <1>3 DEF ResizeX, Resize, TypeOK, Dims
  <2>3. FramesShaped' /\ MemorySafe'
    BY <2>1 DEF MemoryInv, FramesShaped, Shaped, MemorySafe
  <2>4. BuffersFit'
    BY <2>2 DEF MemoryInv, BuffersFit, Dims
  <2>5. \A v \in Workers : pc[v] \notin BeforeX => size'["x"] = size["x"]
    BY <1>2, <2>1, <2>2 DEF MemoryInv, SizeOfFrame, BeforeX
  <2>6. SizeOfFrame'
    BY <2>1, <2>2, <2>5 DEF MemoryInv, SizeOfFrame, BeforeX, BeforeY
  <2>7. LoopsInFrame' /\ ProjectionFits'
    BY <2>1, <2>2, <2>5 DEF MemoryInv, LoopsInFrame, ProjectionFits, BeforeX
  <2> QED
    BY <2>3, <2>4, <2>6, <2>7 DEF MemoryInv
<1>4. CASE ResizeY(w)
  <2>1. /\ pc[w] = "resize y" /\ pc'[w] = "centroid"
        /\ \A v \in Workers \ {w} : pc'[v] = pc[v]
        /\ UNCHANGED <<queue, frame, row, pos, bld, faults>>
    BY <1>4 DEF ResizeY, Goto, TypeOK, local, input
  <2>2. /\ size'["y"] = frame[w].h /\ size'["x"] = size["x"]
        /\ len'["x"] = len["x"]
        /\ len'["y"] = frame[w].h \/ (len'["y"] = len["y"] /\ size'["y"] = size["y"])
    BY <1>4 DEF ResizeY, Resize, TypeOK, Dims
  <2>3. FramesShaped' /\ MemorySafe'
    BY <2>1 DEF MemoryInv, FramesShaped, Shaped, MemorySafe
  <2>4. BuffersFit'
    BY <2>2 DEF MemoryInv, BuffersFit, Dims
  <2>5. \A v \in Workers : pc[v] \notin BeforeY => size'["y"] = size["y"]
    BY <1>2, <2>1, <2>2 DEF MemoryInv, SizeOfFrame, BeforeX, BeforeY
  <2>6. SizeOfFrame'
    BY <2>1, <2>2, <2>5 DEF MemoryInv, SizeOfFrame, BeforeX, BeforeY
  <2>7. LoopsInFrame' /\ ProjectionFits'
    BY <2>1, <2>2, <2>5 DEF MemoryInv, LoopsInFrame, ProjectionFits, BeforeX, BeforeY
  <2> QED
    BY <2>3, <2>4, <2>6, <2>7 DEF MemoryInv
<1> QED
  BY <1>3, <1>4

(* The computations: every access they make is harmless.                    *)
LEMMA CentroidKeepsMemory ==
  ASSUME TypeOK, MemoryInv, NEW w \in Workers, Centroid(w)
  PROVE  MemoryInv'
<1>1. /\ size["x"] \in Nat /\ size["y"] \in Nat /\ row[w] \in Nat /\ pos[w] \in Nat
      /\ bld[w].width <= bld[w].len
      /\ Harmless(faults)
  BY DEF TypeOK, Dims, MemoryInv, ProjectionFits, MemorySafe
<1>2. CASE \/ CentroidBegin(w) \/ CentroidRefused(w) \/ CentroidOff(w) \/ CentroidEnd(w)
  <2> DEFINE l == IF CentroidBegin(w) THEN "clear" ELSE "profiles"
  <2>1. /\ pc[w] \notin BeforeY /\ l \in PC /\ l \notin BeforeY
        /\ l \notin {"sweep", "project"}
    BY <1>2 DEF CentroidBegin, CentroidRefused, CentroidOff, CentroidEnd, BeforeX, BeforeY, PC
  <2>2. Goto(w, l)
    BY <1>2 DEF CentroidBegin, CentroidRefused, CentroidOff, CentroidEnd, Goto
  <2>3. UNCHANGED <<queue, size, len, frame, row, pos, bld, faults>>
    BY <1>2 DEF CentroidBegin, CentroidRefused, CentroidOff, CentroidEnd, input, shared, local
  <2> QED
    BY <1>1, <2>1, <2>2, <2>3, QuietStep
<1>3. CASE CentroidClear(w)
  <2>1. pc[w] \notin BeforeY /\ "sweep" \in PC /\ "sweep" \notin BeforeY
    BY <1>3 DEF CentroidClear, BeforeX, BeforeY, PC
  <2>2. Harmless(BufferFault(len["x"], size["x"])) /\ Harmless(BufferFault(len["y"], size["y"]))
    BY <1>1, <2>1, BufferHarmless DEF Dims
  <2>3. Harmless(faults')
    BY <1>1, <1>3, <2>2, HarmlessUnion DEF CentroidClear
  <2>4. /\ row'[w] = 0 /\ pos'[w] = 0
        /\ \A v \in Workers \ {w} : row'[v] = row[v] /\ pos'[v] = pos[v]
        /\ UNCHANGED <<queue, size, len, frame, bld>>
    BY <1>3 DEF CentroidClear, TypeOK, input
  <2>5. pos'[w] = row'[w] * size["x"] /\ row'[w] <= size["y"]
    BY <1>1, <2>4
  <2> QED
    BY <1>1, <1>3, <2>1, <2>3, <2>4, <2>5, QuietStep DEF CentroidClear
<1>4. CASE CentroidRow(w)
  <2>1. pc[w] = "sweep" /\ pc[w] \notin BeforeY /\ row[w] < size["y"]
    BY <1>4 DEF CentroidRow, BeforeX, BeforeY
  <2>2. /\ Harmless(FrameFault(frame[w], pos[w], size["x"]))
        /\ Harmless(BufferFault(len["x"], size["x"]))
        /\ Harmless(BufferFault(len["y"], row[w] + 1))
    BY <1>1, <2>1, BufferHarmless, LoopHarmless DEF Dims
  <2>3. Harmless(faults')
    BY <1>1, <1>4, <2>2, HarmlessUnion DEF CentroidRow
  <2>4. /\ row'[w] = row[w] + 1 /\ pos'[w] = pos[w] + size["x"]
        /\ \A v \in Workers \ {w} : row'[v] = row[v] /\ pos'[v] = pos[v]
        /\ UNCHANGED <<queue, size, len, frame, bld, pc>>
    BY <1>4 DEF CentroidRow, TypeOK, input
  <2>5. pos'[w] = row'[w] * size["x"] /\ row'[w] <= size["y"]
    <3>1. pos[w] = row[w] * size["x"]
      BY <2>1 DEF MemoryInv, LoopsInFrame
    <3>2. (row[w] + 1) * size["x"] = row[w] * size["x"] + size["x"]
      BY <1>1
    <3> QED
      BY <1>1, <2>1, <2>4, <3>1, <3>2
  <2>6. Goto(w, "sweep") /\ "sweep" \in PC
    BY <2>1, <2>4 DEF Goto, TypeOK, PC
  <2> QED
    BY <1>1, <2>1, <2>3, <2>4, <2>5, <2>6, QuietStep
<1>5. CASE CentroidReduceX(w) \/ CentroidReduceY(w)
  <2> DEFINE l == IF CentroidReduceX(w) THEN "reduce y" ELSE "centroid done"
  <2>1. /\ pc[w] \notin BeforeY /\ l \in PC /\ l \notin BeforeY
        /\ l \notin {"sweep", "project"}
    BY <1>5 DEF CentroidReduceX, CentroidReduceY, BeforeX, BeforeY, PC
  <2>2. Goto(w, l)
    BY <1>5 DEF CentroidReduceX, CentroidReduceY, Goto
  <2>3. Harmless(BufferFault(len["x"], size["x"])) /\ Harmless(BufferFault(len["y"], size["y"]))
    <3>1. pc[w] \notin BeforeY
      BY <2>1
    <3> HIDE DEF l
    <3> QED
      BY <1>1, <3>1, BufferHarmless DEF Dims
  <2>4. Harmless(faults')
    <3>1. CASE CentroidReduceX(w)
      BY <1>1, <2>3, <3>1, HarmlessUnion DEF CentroidReduceX
    <3>2. CASE CentroidReduceY(w)
      BY <1>1, <2>3, <3>2, HarmlessUnion DEF CentroidReduceY
    <3> QED
      BY <1>5, <3>1, <3>2
  <2>5. UNCHANGED <<queue, size, len, frame, row, pos, bld>>
    BY <1>5 DEF CentroidReduceX, CentroidReduceY, input, local
  <2> QED
    BY <1>1, <2>1, <2>2, <2>4, <2>5, QuietStep
<1> QED
  BY <1>2, <1>3, <1>4, <1>5 DEF Centroid

(* The profiles: row and column, clamped to the frame, stay inside it.      *)
LEMMA ProfilesKeepMemory ==
  ASSUME TypeOK, MemoryInv, NEW w \in Workers, Profiles(w)
  PROVE  MemoryInv'
<1>1. /\ size["x"] \in Nat /\ size["y"] \in Nat
      /\ bld[w].width <= bld[w].len
      /\ Harmless(faults)
  BY DEF TypeOK, Dims, MemoryInv, ProjectionFits, MemorySafe
<1>2. pc[w] \notin BeforeY /\ UNCHANGED <<queue, size, len, frame, row, pos, bld>>
  BY DEF Profiles, ProfilesBegin, ProfilesOff, CutX, CutY, ProfilesEnd, BeforeX, BeforeY,
     input, shared, local
<1>3. Harmless(BufferFault(len["x"], size["x"])) /\ Harmless(BufferFault(len["y"], size["y"]))
  BY <1>1, <1>2, BufferHarmless DEF Dims
<1>4. ASSUME NEW l \in {"cut x", "cut y", "cut done", "projections"}, Goto(w, l), Harmless(faults')
      PROVE  MemoryInv'
  <2>1. l \in PC /\ l \notin BeforeY /\ l \notin {"sweep", "project"}
    BY DEF PC, BeforeX, BeforeY
  <2> QED
    BY <1>1, <1>2, <1>4, <2>1, QuietStep
<1>5. CASE ProfilesBegin(w) \/ ProfilesOff(w)
  BY <1>1, <1>4, <1>5 DEF ProfilesBegin, ProfilesOff
<1>6. CASE CutX(w)
  <2>1. PICK y \in Cursors :
          faults' = faults \cup BufferFault(len["x"], size["x"]) \cup RowFault(frame[w], y)
    BY <1>6 DEF CutX
  <2>2. Harmless(RowFault(frame[w], y))
    BY <1>2, CutHarmless, SpectrometerAssumption
  <2>3. Harmless(faults')
    BY <1>1, <1>3, <2>1, <2>2, HarmlessUnion
  <2> QED
    BY <1>4, <1>6, <2>3 DEF CutX
<1>7. CASE CutY(w)
  <2>1. PICK x \in Cursors :
          faults' = faults \cup BufferFault(len["y"], size["y"]) \cup ColumnFault(frame[w], x)
    BY <1>7 DEF CutY
  <2>2. Harmless(ColumnFault(frame[w], x))
    BY <1>2, CutHarmless, SpectrometerAssumption
  <2>3. Harmless(faults')
    BY <1>1, <1>3, <2>1, <2>2, HarmlessUnion
  <2> QED
    BY <1>4, <1>7, <2>3 DEF CutY
<1>8. CASE ProfilesEnd(w)
  <2>1. Harmless(faults')
    BY <1>1, <1>3, <1>8, HarmlessUnion DEF ProfilesEnd
  <2> QED
    BY <1>4, <1>8, <2>1 DEF ProfilesEnd
<1> QED
  BY <1>5, <1>6, <1>7, <1>8 DEF Profiles

(* The projections: sums over the frame into the worker's own bldData.      *)
LEMMA ProjectionsKeepMemory ==
  ASSUME TypeOK, MemoryInv, NEW w \in Workers, Projections(w)
  PROVE  MemoryInv'
<1>1. /\ size["x"] \in Nat /\ size["y"] \in Nat /\ row[w] \in Nat /\ pos[w] \in Nat
      /\ bld[w] \in [width : Nat \cup {Null}, len : Nat, from : Contributors]
      /\ bld[w].width <= bld[w].len
      /\ Harmless(faults)
  BY DEF TypeOK, Dims, MemoryInv, ProjectionFits, MemorySafe
<1>2. CASE ProjectionsBegin(w) \/ ProjectionsRefused(w) \/ ProjectionsOff(w)
  <2>1. PICK l \in {"projection", "send", "finish"} : Goto(w, l)
    BY <1>2 DEF ProjectionsBegin, ProjectionsRefused, ProjectionsOff
  <2>2. l \in PC /\ l \notin BeforeY /\ l \notin {"sweep", "project"}
    BY DEF PC, BeforeX, BeforeY
  <2>3. /\ pc[w] \notin BeforeY
        /\ UNCHANGED <<queue, size, len, frame, row, pos, bld, faults>>
    BY <1>2 DEF ProjectionsBegin, ProjectionsRefused, ProjectionsOff, BeforeX, BeforeY,
       input, shared, local
  <2> QED
    BY <1>1, <2>1, <2>2, <2>3, QuietStep
<1>3. CASE ProjectionClear(w)
  <2>1. pc[w] \notin BeforeY /\ "project" \in PC /\ "project" \notin BeforeY
    BY <1>3 DEF ProjectionClear, BeforeX, BeforeY, PC
  <2>2. /\ row'[w] = 0 /\ pos'[w] = 0 /\ bld'[w].width = size["x"] /\ bld'[w].len = size["x"]
        /\ \A v \in Workers \ {w} : row'[v] = row[v] /\ pos'[v] = pos[v] /\ bld'[v] = bld[v]
        /\ UNCHANGED <<queue, size, len, frame, faults>>
    BY <1>3 DEF ProjectionClear, TypeOK, input, shared
  <2>3. pos'[w] = row'[w] * size["x"] /\ row'[w] <= size["y"] /\ bld'[w].width <= bld'[w].len
    BY <1>1, <2>2
  <2> QED
    BY <1>1, <1>3, <2>1, <2>2, <2>3, QuietStep DEF ProjectionClear
<1>4. CASE ProjectionRow(w)
  <2>1. pc[w] = "project" /\ pc[w] \notin BeforeY /\ row[w] < size["y"]
    BY <1>4 DEF ProjectionRow, BeforeX, BeforeY
  <2>2. bld[w].len = size["x"] /\ bld[w].width = size["x"]
    BY <2>1 DEF MemoryInv, ProjectionFits
  <2>3. /\ Harmless(FrameFault(frame[w], pos[w], size["x"]))
        /\ Harmless(BufferFault(bld[w].len, size["x"]))
    BY <1>1, <2>1, <2>2, LoopHarmless DEF BufferFault, Harmless
  <2>4. Harmless(faults')
    BY <1>1, <1>4, <2>3, HarmlessUnion DEF ProjectionRow
  <2>5. /\ row'[w] = row[w] + 1 /\ pos'[w] = pos[w] + size["x"]
        /\ bld'[w].len = bld[w].len /\ bld'[w].width = bld[w].width
        /\ \A v \in Workers \ {w} : row'[v] = row[v] /\ pos'[v] = pos[v] /\ bld'[v] = bld[v]
        /\ UNCHANGED <<queue, size, len, frame, pc>>
    BY <1>4 DEF ProjectionRow, TypeOK, input, shared
  <2>6. pos'[w] = row'[w] * size["x"] /\ row'[w] <= size["y"]
    <3>1. pos[w] = row[w] * size["x"]
      BY <2>1 DEF MemoryInv, LoopsInFrame
    <3>2. (row[w] + 1) * size["x"] = row[w] * size["x"] + size["x"]
      BY <1>1
    <3> QED
      BY <1>1, <2>1, <2>5, <3>1, <3>2
  <2>7. Goto(w, "project") /\ "project" \in PC
    <3>1. pc \in [Workers -> PC] /\ "project" \in PC /\ pc' = pc
      BY <2>5 DEF TypeOK, PC
    <3> QED
      BY <2>1, <3>1 DEF Goto
  <2> QED
    BY <1>1, <2>1, <2>2, <2>4, <2>5, <2>6, <2>7, QuietStep
<1>5. CASE ProjectionEnd(w)
  <2>1. pc[w] = "project" /\ pc[w] \notin BeforeY /\ "send" \in PC /\ "send" \notin BeforeY
    BY <1>5 DEF ProjectionEnd, BeforeX, BeforeY, PC
  <2>2. bld[w].len = size["x"] /\ bld[w].width = size["x"]
    BY <2>1 DEF MemoryInv, ProjectionFits
  <2>3. /\ Harmless(BufferFault(bld[w].len, size["x"]))
        /\ Harmless(BufferFault(size["x"], bld[w].width))
    BY <1>1, <2>2 DEF BufferFault, Harmless
  <2>4. Harmless(faults')
    BY <1>1, <1>5, <2>3, HarmlessUnion DEF ProjectionEnd
  <2>5. UNCHANGED <<queue, size, len, frame, row, pos, bld>>
    BY <1>5 DEF ProjectionEnd, input, shared, local
  <2> QED
    BY <1>1, <1>5, <2>1, <2>4, <2>5, QuietStep DEF ProjectionEnd
<1> QED
  BY <1>2, <1>3, <1>4, <1>5 DEF Projections

(* The packet and the end of the callback.                                  *)
LEMMA SendKeepsMemory ==
  ASSUME TypeOK, MemoryInv, NEW w \in Workers, SendBld(w) \/ SendSkipped(w) \/ Finish(w)
  PROVE  MemoryInv'
<1>1. /\ bld[w] \in [width : Nat \cup {Null}, len : Nat, from : Contributors]
      /\ bld[w].width <= bld[w].len
      /\ Harmless(faults)
  BY DEF TypeOK, MemoryInv, ProjectionFits, MemorySafe
<1>2. CASE SendBld(w) \/ SendSkipped(w)
  <2>1. pc[w] \notin BeforeY /\ "finish" \in PC /\ "finish" \notin BeforeY
    BY <1>2 DEF SendBld, SendSkipped, BeforeX, BeforeY, PC
  <2>2. UNCHANGED <<queue, size, len, frame, row, pos, bld>> /\ Goto(w, "finish")
    BY <1>2 DEF SendBld, SendSkipped, input, shared, local
  <2>3. Harmless({"junk"}) /\ Harmless(BufferFault(bld[w].len, bld[w].width))
    BY <1>1 DEF Harmless, BufferFault
  <2>4. Harmless(faults')
    <3>1. CASE SendBld(w)
      BY <1>1, <2>3, <3>1, HarmlessUnion DEF SendBld
    <3>2. CASE SendSkipped(w)
      BY <1>1, <3>2 DEF SendSkipped
    <3> QED
      BY <1>2, <3>1, <3>2
  <2> QED
    BY <1>1, <2>1, <2>2, <2>4, QuietStep
<1>3. CASE Finish(w)
  <2>1. /\ pc'[w] = "idle" /\ bld'[w] = NoBld
        /\ \A v \in Workers \ {w} : /\ pc'[v] = pc[v] /\ frame'[v] = frame[v]
                                    /\ row'[v] = row[v] /\ pos'[v] = pos[v] /\ bld'[v] = bld[v]
        /\ UNCHANGED <<queue, size, len, faults>>
    BY <1>3 DEF Finish, Goto, TypeOK, input, shared
  <2>2. FramesShaped' /\ SizeOfFrame' /\ LoopsInFrame'
    <3>1. FramesShaped'
      BY <2>1 DEF MemoryInv, FramesShaped, Shaped
    <3>2. SizeOfFrame'
      BY <2>1 DEF MemoryInv, SizeOfFrame, BeforeX, BeforeY
    <3>3. LoopsInFrame'
      BY <2>1 DEF MemoryInv, LoopsInFrame
    <3> QED
      BY <3>1, <3>2, <3>3
  <2>3. BuffersFit' /\ ProjectionFits' /\ MemorySafe'
    BY <2>1 DEF MemoryInv, BuffersFit, ProjectionFits, MemorySafe, NoBld, Null
  <2> QED
    BY <2>2, <2>3 DEF MemoryInv
<1> QED
  BY <1>2, <1>3

(* With one worker, or with frames of one shape, sizes, buffers, loops and  *)
(* frames stay in step.                                                     *)
LEMMA MemoryInvariant ==
  ASSUME NotShared
  PROVE  Spec => []MemoryInv
<1>1. TypeOK /\ MemoryInv /\ [Next]_vars => MemoryInv'
  <2> SUFFICES ASSUME TypeOK, MemoryInv, [Next]_vars PROVE MemoryInv'
    OBVIOUS
  <2>1. CASE Camera
    BY <2>1, ArrivalKeepsMemory DEF Camera
  <2>2. ASSUME NEW w \in Workers, Worker(w) PROVE MemoryInv'
    BY <2>2, ArrivalKeepsMemory, ResizeKeepsMemory, CentroidKeepsMemory, ProfilesKeepMemory,
       ProjectionsKeepMemory, SendKeepsMemory DEF Worker
  <2>3. CASE AtRest \/ UNCHANGED vars
    BY <2>3 DEF AtRest, vars, input, shared, local, MemoryInv, FramesShaped, Shaped, SizeOfFrame,
       BuffersFit, LoopsInFrame, ProjectionFits, MemorySafe
  <2> QED
    BY <2>1, <2>2, <2>3 DEF Next
<1> QED
  BY <1>1, MemoryInit, TypeCorrect, PTL DEF Spec

(* With one worker, or with frames of one shape, no step of the plugin      *)
(* reads or writes outside a profile buffer, a projection or a frame.       *)
THEOREM MemorySafety ==
  ASSUME NotShared
  PROVE  Spec => []MemorySafe
<1>1. MemoryInv => MemorySafe
  BY DEF MemoryInv
<1> QED
  BY <1>1, MemoryInvariant, PTL

-----------------------------------------------------------------------------
(* A step of one worker that moves it from l to m and leaves the mutex as m *)
(* requires keeps the discipline.                                           *)
LEMMA LockStep ==
  ASSUME TypeOK, LockDiscipline, NEW w \in Workers, NEW m \in PC, Goto(w, m),
         \/ lock = w /\ lock' = w /\ m \in LockedSections
         \/ lock = w /\ lock' = NoWorker /\ m \notin LockedSections
         \/ lock = NoWorker /\ lock' = w /\ m \in LockedSections
         \/ pc[w] \notin LockedSections /\ lock' = lock /\ m \notin LockedSections
  PROVE  LockDiscipline'
<1>1. pc'[w] = m /\ \A v \in Workers \ {w} : pc'[v] = pc[v]
  BY DEF Goto, TypeOK
<1> QED
  BY <1>1, NoWorkerAssumption DEF LockDiscipline

(* With any number of workers, the holder of the port mutex is the only one *)
(* in a locked section, and every section entered is left with it released. *)
THEOREM LockSafety == Spec => []LockDiscipline
<1>1. Init => LockDiscipline
  BY NoWorkerAssumption DEF Init, LockDiscipline, LockedSections
<1>2. TypeOK /\ LockDiscipline /\ [Next]_vars => LockDiscipline'
  <2> SUFFICES ASSUME TypeOK, LockDiscipline, [Next]_vars PROVE LockDiscipline'
    OBVIOUS
  <2>1. CASE Camera
    BY <2>1 DEF Camera, Post, LockDiscipline
  <2>2. ASSUME NEW w \in Workers, Receive(w) \/ Enter(w) \/ ResizeX(w) \/ ResizeY(w)
        PROVE  LockDiscipline'
    <3>1. PICK m \in {"enter", "resize x", "resize y", "centroid"} : Goto(w, m) /\
            (\/ lock = w /\ lock' = w /\ m \in LockedSections
             \/ lock = NoWorker /\ lock' = w /\ m \in LockedSections
             \/ pc[w] \notin LockedSections /\ lock' = lock /\ m \notin LockedSections)
      BY <2>2 DEF Receive, Enter, ResizeX, ResizeY, Holds, Acquire, LockedSections
    <3>2. m \in PC
      BY DEF PC
    <3> QED
      BY <3>1, <3>2, LockStep
  <2>3. ASSUME NEW w \in Workers, Centroid(w) PROVE LockDiscipline'
    <3>1. CASE CentroidRow(w)
      BY <3>1 DEF CentroidRow, LockDiscipline
    <3>2. CASE ~CentroidRow(w)
      <4>1. PICK m \in {"clear", "sweep", "reduce y", "centroid done", "profiles"} : Goto(w, m) /\
              (\/ lock = w /\ lock' = w /\ m \in LockedSections
               \/ lock = w /\ lock' = NoWorker /\ m \notin LockedSections
               \/ lock = NoWorker /\ lock' = w /\ m \in LockedSections
               \/ pc[w] \notin LockedSections /\ lock' = lock /\ m \notin LockedSections)
        BY <2>3, <3>2 DEF Centroid, CentroidBegin, CentroidRefused, CentroidOff, CentroidClear,
           CentroidReduceX, CentroidReduceY, CentroidEnd, Holds, Acquire, Unlock, LockedSections
      <4>2. m \in PC
        BY DEF PC
      <4> QED
        BY <4>1, <4>2, LockStep
    <3> QED
      BY <3>1, <3>2
  <2>4. ASSUME NEW w \in Workers, Profiles(w) PROVE LockDiscipline'
    <3>1. PICK m \in {"cut x", "cut y", "cut done", "projections"} : Goto(w, m) /\
            (\/ lock = w /\ lock' = w /\ m \in LockedSections
             \/ lock = w /\ lock' = NoWorker /\ m \notin LockedSections
             \/ lock = NoWorker /\ lock' = w /\ m \in LockedSections
             \/ pc[w] \notin LockedSections /\ lock' = lock /\ m \notin LockedSections)
      BY <2>4 DEF Profiles, ProfilesBegin, ProfilesOff, CutX, CutY, ProfilesEnd, Holds, Acquire,
         Unlock, LockedSections
    <3>2. m \in PC
      BY DEF PC
    <3> QED
      BY <3>1, <3>2, LockStep
  <2>5. ASSUME NEW w \in Workers, Projections(w) PROVE LockDiscipline'
    <3>1. CASE ProjectionRow(w)
      BY <3>1 DEF ProjectionRow, LockDiscipline
    <3>2. CASE ~ProjectionRow(w)
      <4>1. PICK m \in {"projection", "project", "send", "finish"} : Goto(w, m) /\
              (\/ lock = w /\ lock' = w /\ m \in LockedSections
               \/ lock = w /\ lock' = NoWorker /\ m \notin LockedSections
               \/ lock = NoWorker /\ lock' = w /\ m \in LockedSections
               \/ pc[w] \notin LockedSections /\ lock' = lock /\ m \notin LockedSections)
        BY <2>5, <3>2 DEF Projections, ProjectionsBegin, ProjectionsRefused, ProjectionsOff,
           ProjectionClear, ProjectionEnd, Holds, Acquire, Unlock, LockedSections
      <4>2. m \in PC
        BY DEF PC
      <4> QED
        BY <4>1, <4>2, LockStep
    <3> QED
      BY <3>1, <3>2
  <2>6. ASSUME NEW w \in Workers, SendBld(w) \/ SendSkipped(w) \/ Finish(w)
        PROVE  LockDiscipline'
    <3>1. PICK m \in {"finish", "idle"} : Goto(w, m) /\
            (\/ lock = w /\ lock' = w /\ m \in LockedSections
             \/ lock = w /\ lock' = NoWorker /\ m \notin LockedSections)
      BY <2>6 DEF SendBld, SendSkipped, Finish, Holds, Unlock, LockedSections
    <3>2. m \in PC
      BY DEF PC
    <3> QED
      BY <3>1, <3>2, LockStep
  <2>7. CASE AtRest \/ UNCHANGED vars
    BY <2>7 DEF AtRest, vars, LockDiscipline
  <2> QED
    BY <2>1, <2>2, <2>3, <2>4, <2>5, <2>6, <2>7 DEF Next, Worker
<1> QED
  BY <1>1, <1>2, TypeCorrect, PTL DEF Spec

-----------------------------------------------------------------------------
(* What a worker owns stays its own while other workers run: a step of one  *)
(* worker leaves the others' place in the code, frame, switches and bldData *)
(* alone.                                                                   *)
LEMMA OthersKeep ==
  ASSUME TypeOK, NEW w \in Workers, Worker(w), NEW v \in Workers, v # w
  PROVE  pc'[v] = pc[v] /\ frame'[v] = frame[v] /\ want'[v] = want[v] /\ bld'[v] = bld[v]
<1> USE DEF Goto, TypeOK, local
<1>1. CASE Receive(w) \/ Enter(w) \/ ResizeX(w) \/ ResizeY(w)
  BY <1>1 DEF Receive, Enter, ResizeX, ResizeY
<1>2. CASE Centroid(w)
  BY <1>2 DEF Centroid, CentroidBegin, CentroidRefused, CentroidOff, CentroidClear, CentroidRow,
     CentroidReduceX, CentroidReduceY, CentroidEnd
<1>3. CASE Profiles(w)
  BY <1>3 DEF Profiles, ProfilesBegin, ProfilesOff, CutX, CutY, ProfilesEnd
<1>4. CASE Projections(w)
  BY <1>4 DEF Projections, ProjectionsBegin, ProjectionsRefused, ProjectionsOff, ProjectionClear,
     ProjectionRow, ProjectionEnd
<1>5. CASE SendBld(w) \/ SendSkipped(w) \/ Finish(w)
  BY <1>5 DEF SendBld, SendSkipped, Finish
<1> QED
  BY <1>1, <1>2, <1>3, <1>4, <1>5 DEF Worker

-----------------------------------------------------------------------------
(* The BLD packet.                                                          *)

(* From its clearing to the packet a worker's projection is of its frame,   *)
(* over the frame's width; after a refused frame bldData was never written. *)
ProjectionOfFrame(w) ==
  bld[w].width = frame[w].w /\ bld[w].from \subseteq {frame[w].id}
PacketReady ==
  \A w \in Workers :
    pc[w] = "project" \/ (pc[w] = "send" /\ frame[w].usable) => ProjectionOfFrame(w)
PacketInv == PacketReady /\ PacketOfItsFrame

(* A worker's step that keeps the packets and takes the worker to neither   *)
(* place where its projection is relied on.                                 *)
LEMMA ElsewherePackets ==
  ASSUME TypeOK, PacketInv, NEW w \in Workers, Worker(w), UNCHANGED packets,
         pc'[w] = "project" \/ (pc'[w] = "send" /\ frame'[w].usable) => ProjectionOfFrame(w)'
  PROVE  PacketInv'
<1>1. ASSUME NEW v \in Workers, v # w,
             pc'[v] = "project" \/ (pc'[v] = "send" /\ frame'[v].usable)
      PROVE  ProjectionOfFrame(v)'
  BY <1>1, OthersKeep DEF PacketInv, PacketReady, ProjectionOfFrame
<1>2. PacketReady'
  BY <1>1 DEF PacketReady
<1>3. PacketOfItsFrame'
  BY DEF PacketInv, PacketOfItsFrame
<1> QED
  BY <1>2, <1>3 DEF PacketInv

(* The projection of a frame is cleared, summed and published.              *)
LEMMA ProjectionsKeepPackets ==
  ASSUME TypeOK, MemoryInv, PacketInv, NEW w \in Workers, Projections(w) PROVE PacketInv'
<1> Worker(w)
  BY DEF Worker
<1>1. CASE ProjectionsBegin(w) \/ ProjectionsRefused(w) \/ ProjectionsOff(w)
  <2>1. /\ UNCHANGED packets
        /\ pc'[w] \in {"projection", "finish"} \/ (pc'[w] = "send" /\ ~frame'[w].usable)
    BY <1>1 DEF ProjectionsBegin, ProjectionsRefused, ProjectionsOff, Goto, TypeOK, output, local
  <2> QED
    BY <2>1, ElsewherePackets
<1>2. CASE ProjectionClear(w)
  <2>1. size["x"] = frame[w].w
    BY <1>2 DEF ProjectionClear, MemoryInv, SizeOfFrame, BeforeX
  <2>2. bld'[w].width = size["x"] /\ bld'[w].from = {} /\ UNCHANGED <<frame, packets>>
    BY <1>2 DEF ProjectionClear, TypeOK, output
  <2> QED
    BY <2>1, <2>2, ElsewherePackets DEF ProjectionOfFrame
<1>3. CASE ProjectionRow(w)
  <2>1. /\ bld'[w].width = bld[w].width /\ bld'[w].from = bld[w].from \cup {frame[w].id}
        /\ UNCHANGED <<frame, packets>> /\ pc[w] = "project"
    BY <1>3 DEF ProjectionRow, TypeOK, output
  <2>2. ProjectionOfFrame(w)
    BY <2>1 DEF PacketInv, PacketReady
  <2> QED
    BY <2>1, <2>2, ElsewherePackets DEF ProjectionOfFrame
<1>4. CASE ProjectionEnd(w)
  <2>1. UNCHANGED <<frame, bld, packets>> /\ pc[w] = "project"
    BY <1>4 DEF ProjectionEnd, local
  <2>2. ProjectionOfFrame(w)
    BY <2>1 DEF PacketInv, PacketReady
  <2> QED
    BY <2>1, <2>2, ElsewherePackets DEF ProjectionOfFrame
<1> QED
  BY <1>1, <1>2, <1>3, <1>4 DEF Projections

(* The packet handed over is the worker's projection of its frame.          *)
LEMMA SendKeepsPackets ==
  ASSUME TypeOK, PacketInv, NEW w \in Workers, SendBld(w) PROVE PacketInv'
<1> DEFINE p == [frame |-> frame[w], width |-> bld[w].width, from |-> bld[w].from]
<1>1. packets' = Append(packets, p) /\ frame[w].pulse /\ pc[w] = "send"
  BY DEF SendBld
<1>2. frame[w].usable => ProjectionOfFrame(w)
  BY <1>1 DEF PacketInv, PacketReady
<1>3. PacketOfItsFrame'
  <2>1. /\ p.frame.pulse
        /\ p.frame.usable => p.width = p.frame.w /\ p.from \subseteq {p.frame.id}
    BY <1>1, <1>2 DEF ProjectionOfFrame
  <2>2. packets \in Seq([frame : FrameSet, width : Nat \cup {Null}, from : Contributors])
    BY DEF TypeOK
  <2> HIDE DEF p
  <2>3. Len(packets') = Len(packets) + 1 /\ packets'[Len(packets) + 1] = p
        /\ \A i \in 1 .. Len(packets) : packets'[i] = packets[i]
    BY <1>1, <2>2
  <2> QED
    BY <2>1, <2>2, <2>3 DEF PacketInv, PacketOfItsFrame
<1>4. PacketReady'
  <2>1. pc'[w] = "finish"
    BY DEF SendBld, Goto, TypeOK
  <2>2. ASSUME NEW v \in Workers, v # w,
               pc'[v] = "project" \/ (pc'[v] = "send" /\ frame'[v].usable)
        PROVE  ProjectionOfFrame(v)'
    BY <2>2, OthersKeep DEF Worker, PacketInv, PacketReady, ProjectionOfFrame
  <2> QED
    BY <2>1, <2>2 DEF PacketReady
<1> QED
  BY <1>3, <1>4 DEF PacketInv

(* With one worker, or with frames of one shape, a BLD packet of a frame    *)
(* the plugin can process carries that frame's projection over its width,   *)
(* and only frames with a pulse id are sent.                                *)
THEOREM PacketsExact == ASSUME NotShared PROVE Spec => []PacketOfItsFrame
<1>1. Init => PacketInv
  BY DEF Init, PacketInv, PacketReady, PacketOfItsFrame
<1>2. TypeOK /\ MemoryInv /\ PacketInv /\ [Next]_vars => PacketInv'
  <2> SUFFICES ASSUME TypeOK, MemoryInv, PacketInv, [Next]_vars PROVE PacketInv'
    OBVIOUS
  <2>1. CASE Camera \/ AtRest \/ UNCHANGED vars
    BY <2>1 DEF Camera, Post, AtRest, vars, shared, output, local, PacketInv, PacketReady,
       PacketOfItsFrame, ProjectionOfFrame
  <2>2. ASSUME NEW w \in Workers, Worker(w) PROVE PacketInv'
    <3>1. CASE \/ Receive(w) \/ Enter(w) \/ ResizeX(w) \/ ResizeY(w) \/ Centroid(w)
               \/ Profiles(w) \/ SendSkipped(w) \/ Finish(w)
      <4>1. UNCHANGED packets
        BY <3>1 DEF Receive, Enter, ResizeX, ResizeY, Centroid, CentroidBegin, CentroidRefused,
           CentroidOff, CentroidClear, CentroidRow, CentroidReduceX, CentroidReduceY,
           CentroidEnd, Profiles, ProfilesBegin, ProfilesOff, CutX, CutY, ProfilesEnd,
           SendSkipped, Finish, output
      <4>2. pc'[w] \notin {"project", "send"}
        BY <3>1 DEF Receive, Enter, ResizeX, ResizeY, Centroid, CentroidBegin, CentroidRefused,
           CentroidOff, CentroidClear, CentroidRow, CentroidReduceX, CentroidReduceY,
           CentroidEnd, Profiles, ProfilesBegin, ProfilesOff, CutX, CutY, ProfilesEnd,
           SendSkipped, Finish, Goto, TypeOK
      <4> QED
        BY <2>2, <4>1, <4>2, ElsewherePackets
    <3>2. CASE Projections(w)
      BY <3>2, ProjectionsKeepPackets
    <3>3. CASE SendBld(w)
      BY <3>3, SendKeepsPackets
    <3> QED
      BY <2>2, <3>1, <3>2, <3>3 DEF Worker
  <2> QED
    BY <2>1, <2>2 DEF Next
<1>3. PacketInv => PacketOfItsFrame
  BY DEF PacketInv
<1> QED
  BY <1>1, <1>2, <1>3, TypeCorrect, MemoryInvariant, PTL DEF Spec

-----------------------------------------------------------------------------
(* The published outputs, with one worker.                                  *)

(* What the worker's callback has put into the buffers and the members is   *)
(* of its frame from their clearing to their publication; the average of    *)
(* the profiles is the one the centroid summed, and of this frame only if   *)
(* the centroid was computed in this callback.                              *)
AverageOfFrame ==
  \A w \in Workers :
    (\/ pc[w] \in {"sweep", "reduce y", "centroid done"}
     \/ /\ pc[w] \in {"profiles", "cut x", "cut y", "cut done"}
        /\ want[w].centroid /\ frame[w].usable)
    => Both(avg) \subseteq {frame[w].id}
CentroidOfFrame ==
  \A w \in Workers :
    /\ pc[w] \in {"sweep", "reduce y", "centroid done"} => Both(centroid) \subseteq {frame[w].id}
    /\ pc[w] \in {"clear", "sweep", "reduce y", "centroid done"} =>
         want[w].centroid /\ frame[w].usable
CutsOfFrame ==
  \A w \in Workers :
    /\ pc[w] \in {"cut x", "cut y", "cut done"} => frame[w].usable
    /\ pc[w] \in {"cut y", "cut done"} => cut["x"] \subseteq {frame[w].id}
    /\ pc[w] = "cut done" => cut["y"] \subseteq {frame[w].id}
SumsOfFrame == \A w \in Workers : pc[w] = "project" => bld[w].from \subseteq {frame[w].id}
OutputInv ==
  AverageOfFrame /\ CentroidOfFrame /\ CutsOfFrame /\ SumsOfFrame /\ OutputOfItsFrame

(* An output published for a callback that computed it is of its frame.     *)
LEMMA PublishedOfFrame ==
  ASSUME TypeOK, OutputOfItsFrame, NEW w \in Workers, NEW o \in DOMAIN pv, NEW content,
         NEW isFresh \in BOOLEAN, isFresh => content \subseteq {frame[w].id},
         pv' = [pv EXCEPT ![o] = Output(w, content, isFresh)]
  PROVE  OutputOfItsFrame'
BY DEF OutputOfItsFrame, Output, TypeOK

(* The worker's part of the invariant is about the one worker there is.     *)
LEMMA TheWorker ==
  ASSUME OneWorker, NEW w \in Workers
  PROVE  /\ AverageOfFrame' <=>
              ((\/ pc'[w] \in {"sweep", "reduce y", "centroid done"}
                \/ /\ pc'[w] \in {"profiles", "cut x", "cut y", "cut done"}
                   /\ want'[w].centroid /\ frame'[w].usable)
               => Both(avg') \subseteq {frame'[w].id})
         /\ CentroidOfFrame' <=>
              /\ pc'[w] \in {"sweep", "reduce y", "centroid done"} =>
                   Both(centroid') \subseteq {frame'[w].id}
              /\ pc'[w] \in {"clear", "sweep", "reduce y", "centroid done"} =>
                   want'[w].centroid /\ frame'[w].usable
         /\ CutsOfFrame' <=>
              /\ pc'[w] \in {"cut x", "cut y", "cut done"} => frame'[w].usable
              /\ pc'[w] \in {"cut y", "cut done"} => cut'["x"] \subseteq {frame'[w].id}
              /\ pc'[w] = "cut done" => cut'["y"] \subseteq {frame'[w].id}
         /\ SumsOfFrame' <=> (pc'[w] = "project" => bld'[w].from \subseteq {frame'[w].id})
<1>1. \A v \in Workers : v = w
  BY DEF OneWorker
<1> QED
  BY <1>1, Zenon DEF AverageOfFrame, CentroidOfFrame, CutsOfFrame, SumsOfFrame, Both

(* Taking a frame and following its size computes nothing.                  *)
LEMMA ArrivalKeepsOutput ==
  ASSUME TypeOK, OutputInv, OneWorker, NEW w \in Workers,
         Receive(w) \/ Enter(w) \/ ResizeX(w) \/ ResizeY(w) \/ SendBld(w) \/ SendSkipped(w) \/ Finish(w)
  PROVE  OutputInv'
<1>1. pc'[w] \in {"enter", "resize x", "resize y", "centroid", "finish", "idle"} /\ UNCHANGED pv
  BY DEF Receive, Enter, ResizeX, ResizeY, SendBld, SendSkipped, Finish, Goto, TypeOK, output
<1>2. AverageOfFrame' /\ CentroidOfFrame' /\ CutsOfFrame' /\ SumsOfFrame'
  BY <1>1, TheWorker
<1>3. OutputOfItsFrame'
  BY <1>1 DEF OutputInv, OutputOfItsFrame
<1> QED
  BY <1>2, <1>3 DEF OutputInv

(* The centroid is summed from cleared buffers and published.               *)
LEMMA CentroidKeepsOutput ==
  ASSUME TypeOK, OutputInv, OneWorker, NEW w \in Workers, Centroid(w) PROVE OutputInv'
<1> DEFINE id == frame[w].id
<1>0. /\ pc \in [Workers -> PC] /\ avg \in [Dims -> Contributors] /\ "centroid" \in DOMAIN pv
      /\ centroid \in [Dims -> Contributors] /\ frame[w].usable \in BOOLEAN
  BY DEF TypeOK, FrameSet
<1>1. CASE CentroidBegin(w) \/ CentroidOff(w)
  <2>1. /\ \/ pc'[w] = "clear" /\ want[w].centroid /\ frame[w].usable
           \/ pc'[w] = "profiles" /\ ~want[w].centroid
        /\ UNCHANGED <<want, frame, pv>>
    BY <1>0, <1>1 DEF CentroidBegin, CentroidOff, Goto, output, local
  <2>2. AverageOfFrame' /\ CentroidOfFrame' /\ CutsOfFrame' /\ SumsOfFrame'
    BY <2>1, TheWorker
  <2>3. OutputOfItsFrame'
    BY <2>1 DEF OutputInv, OutputOfItsFrame
  <2> QED
    BY <2>2, <2>3 DEF OutputInv
<1>2. CASE CentroidRefused(w)
  <2>1. pc'[w] = "profiles" /\ ~frame'[w].usable /\ ~frame[w].usable /\ PublishCentroid(w)
    BY <1>0, <1>2 DEF CentroidRefused, Goto, local
  <2>2. AverageOfFrame' /\ CentroidOfFrame' /\ CutsOfFrame' /\ SumsOfFrame'
    BY <2>1, TheWorker
  <2>3. OutputOfItsFrame'
    BY <1>0, <2>1, PublishedOfFrame DEF PublishCentroid, OutputInv
  <2> QED
    BY <2>2, <2>3 DEF OutputInv
<1>3. CASE CentroidClear(w) \/ CentroidRow(w) \/ CentroidReduceX(w) \/ CentroidReduceY(w)
  <2>1. /\ pc'[w] \in {"sweep", "reduce y", "centroid done"}
        /\ pc[w] \in {"clear", "sweep", "reduce y", "centroid done"}
        /\ UNCHANGED <<want, frame, pv>>
    BY <1>0, <1>3 DEF CentroidClear, CentroidRow, CentroidReduceX, CentroidReduceY, Goto, output,
       local
  <2>2. want[w].centroid /\ frame[w].usable
    BY <2>1 DEF OutputInv, CentroidOfFrame
  <2>3. Both(avg') \subseteq {id} /\ Both(centroid') \subseteq {id}
    <3>1. CASE CentroidClear(w)
      BY <3>1 DEF CentroidClear, Both, Dims
    <3>2. CASE ~CentroidClear(w)
      <4>1. pc[w] \in {"sweep", "reduce y"}
        BY <1>3, <3>2 DEF CentroidRow, CentroidReduceX, CentroidReduceY
      <4>2. Both(avg) \subseteq {id} /\ Both(centroid) \subseteq {id}
        BY <4>1 DEF OutputInv, AverageOfFrame, CentroidOfFrame
      <4>3. CASE CentroidRow(w)
        BY <4>2, <4>3 DEF CentroidRow, Both, Dims
      <4>4. CASE CentroidReduceX(w) \/ CentroidReduceY(w)
        <5>1. /\ UNCHANGED avg
              /\ centroid'["x"] \in {centroid["x"], avg["x"]}
              /\ centroid'["y"] \in {centroid["y"], avg["y"]}
          BY <1>0, <4>4 DEF CentroidReduceX, CentroidReduceY, Dims
        <5> QED
          BY <4>2, <5>1 DEF Both
      <4> QED
        BY <1>3, <3>2, <4>3, <4>4
    <3> QED
      BY <3>1, <3>2
  <2>4. AverageOfFrame' /\ CentroidOfFrame' /\ CutsOfFrame' /\ SumsOfFrame'
    BY <2>1, <2>2, <2>3, TheWorker
  <2>5. OutputOfItsFrame'
    BY <2>1 DEF OutputInv, OutputOfItsFrame
  <2> QED
    BY <2>4, <2>5 DEF OutputInv
<1>4. CASE CentroidEnd(w)
  <2>1. /\ pc[w] = "centroid done" /\ pc'[w] = "profiles" /\ PublishCentroid(w)
        /\ UNCHANGED <<avg, want, frame>>
    BY <1>0, <1>4 DEF CentroidEnd, Goto, local, shared
  <2>2. Both(avg) \subseteq {id} /\ Both(centroid) \subseteq {id}
    BY <2>1 DEF OutputInv, AverageOfFrame, CentroidOfFrame
  <2>3. AverageOfFrame' /\ CentroidOfFrame' /\ CutsOfFrame' /\ SumsOfFrame'
    BY <2>1, <2>2, TheWorker
  <2>4. OutputOfItsFrame'
    BY <1>0, <2>1, <2>2, PublishedOfFrame DEF PublishCentroid, OutputInv
  <2> QED
    BY <2>3, <2>4 DEF OutputInv
<1> QED
  BY <1>1, <1>2, <1>3, <1>4 DEF Centroid

(* The row and the column are copied and published with the average.        *)
LEMMA ProfilesKeepOutput ==
  ASSUME TypeOK, OutputInv, OneWorker, NEW w \in Workers, Profiles(w) PROVE OutputInv'
<1> DEFINE id == frame[w].id
<1>0. /\ pc \in [Workers -> PC] /\ cut \in [Dims -> Contributors]
      /\ "average" \in DOMAIN pv /\ "cut" \in DOMAIN pv
      /\ want[w].centroid \in BOOLEAN
  BY DEF TypeOK, Switches, Flags
<1>1. UNCHANGED <<want, frame, bld, avg>>
  BY DEF Profiles, ProfilesBegin, ProfilesOff, CutX, CutY, ProfilesEnd, local, shared
<1>2. CASE ProfilesBegin(w) \/ ProfilesOff(w)
  <2>1. /\ pc[w] = "profiles"
        /\ pc'[w] = "projections" \/ (pc'[w] = "cut x" /\ frame[w].usable)
        /\ UNCHANGED pv
    BY <1>0, <1>2 DEF ProfilesBegin, ProfilesOff, Goto, output
  <2>2. pc'[w] = "cut x" /\ want[w].centroid => Both(avg) \subseteq {id}
    BY <2>1 DEF OutputInv, AverageOfFrame
  <2>3. AverageOfFrame' /\ CentroidOfFrame' /\ CutsOfFrame' /\ SumsOfFrame'
    BY <1>1, <2>1, <2>2, TheWorker
  <2>4. OutputOfItsFrame'
    BY <2>1 DEF OutputInv, OutputOfItsFrame
  <2> QED
    BY <2>3, <2>4 DEF OutputInv
<1>3. CASE CutX(w) \/ CutY(w)
  <2>1. /\ pc[w] \in {"cut x", "cut y"} /\ UNCHANGED pv
        /\ \/ pc'[w] = "cut y" /\ cut'["x"] = {id}
           \/ pc[w] = "cut y" /\ pc'[w] = "cut done" /\ cut'["x"] = cut["x"] /\ cut'["y"] = {id}
    BY <1>0, <1>3 DEF CutX, CutY, Goto, output, Dims
  <2>2. /\ want[w].centroid /\ frame[w].usable => Both(avg) \subseteq {id}
        /\ frame[w].usable
        /\ pc[w] = "cut y" => cut["x"] \subseteq {id}
    BY <2>1 DEF OutputInv, AverageOfFrame, CutsOfFrame
  <2>3. AverageOfFrame' /\ CentroidOfFrame' /\ CutsOfFrame' /\ SumsOfFrame'
    BY <1>1, <2>1, <2>2, TheWorker
  <2>4. OutputOfItsFrame'
    BY <2>1 DEF OutputInv, OutputOfItsFrame
  <2> QED
    BY <2>3, <2>4 DEF OutputInv
<1>4. CASE ProfilesEnd(w)
  <2>1. /\ pc[w] = "cut done" /\ pc'[w] = "projections"
        /\ pv' = [pv EXCEPT !["average"] = Output(w, Both(avg), want[w].centroid),
                            !["cut"]     = Output(w, Both(cut), TRUE)]
    BY <1>0, <1>4 DEF ProfilesEnd, Goto
  <2>2. (want[w].centroid => Both(avg) \subseteq {id}) /\ Both(cut) \subseteq {id}
    <3>1. frame[w].usable /\ cut["x"] \subseteq {id} /\ cut["y"] \subseteq {id}
      BY <2>1 DEF OutputInv, CutsOfFrame
    <3>2. want[w].centroid => Both(avg) \subseteq {id}
      BY <2>1, <3>1 DEF OutputInv, AverageOfFrame
    <3> QED
      BY <3>1, <3>2 DEF Both
  <2>3. AverageOfFrame' /\ CentroidOfFrame' /\ CutsOfFrame' /\ SumsOfFrame'
    BY <1>1, <2>1, TheWorker
  <2>4. OutputOfItsFrame'
    <3>1. /\ DOMAIN pv' = DOMAIN pv
          /\ pv'["average"] = Output(w, Both(avg), want[w].centroid)
          /\ pv'["cut"] = Output(w, Both(cut), TRUE)
          /\ \A o \in DOMAIN pv : o \notin {"average", "cut"} => pv'[o] = pv[o]
      BY <1>0, <2>1 DEF TypeOK
    <3> QED
      BY <2>2, <3>1 DEF OutputInv, OutputOfItsFrame, Output
  <2> QED
    BY <2>3, <2>4 DEF OutputInv
<1> QED
  BY <1>2, <1>3, <1>4 DEF Profiles

(* The projection is summed in cleared memory of the worker and published.  *)
LEMMA ProjectionsKeepOutput ==
  ASSUME TypeOK, OutputInv, OneWorker, NEW w \in Workers, Projections(w) PROVE OutputInv'
<1>0. pc \in [Workers -> PC] /\ "proj" \in DOMAIN pv
  BY DEF TypeOK
<1>1. CASE ~ProjectionEnd(w)
  <2>1. /\ pc'[w] \in {"projection", "project", "send", "finish"} /\ UNCHANGED <<pv, frame>>
        /\ pc'[w] = "project" =>
             \/ bld'[w].from = {}
             \/ pc[w] = "project" /\ bld'[w].from = bld[w].from \cup {frame[w].id}
    BY <1>0, <1>1 DEF Projections, ProjectionsBegin, ProjectionsRefused, ProjectionsOff,
       ProjectionClear, ProjectionRow, Goto, TypeOK, output, local
  <2>2. pc'[w] = "project" => bld'[w].from \subseteq {frame[w].id}
    BY <2>1 DEF OutputInv, SumsOfFrame
  <2>3. AverageOfFrame' /\ CentroidOfFrame' /\ CutsOfFrame' /\ SumsOfFrame'
    BY <2>1, <2>2, TheWorker
  <2>4. OutputOfItsFrame'
    BY <2>1 DEF OutputInv, OutputOfItsFrame
  <2> QED
    BY <2>3, <2>4 DEF OutputInv
<1>2. CASE ProjectionEnd(w)
  <2>1. /\ pc[w] = "project" /\ pc'[w] = "send"
        /\ pv' = [pv EXCEPT !["proj"] = Output(w, bld[w].from, TRUE)]
    BY <1>0, <1>2 DEF ProjectionEnd, Goto
  <2>2. bld[w].from \subseteq {frame[w].id}
    BY <2>1 DEF OutputInv, SumsOfFrame
  <2>3. AverageOfFrame' /\ CentroidOfFrame' /\ CutsOfFrame' /\ SumsOfFrame'
    BY <2>1, TheWorker
  <2>4. OutputOfItsFrame'
    BY <1>0, <2>1, <2>2, PublishedOfFrame DEF OutputInv
  <2> QED
    BY <2>3, <2>4 DEF OutputInv
<1> QED
  BY <1>1, <1>2

(* With one worker an output recomputed in a callback is made of that       *)
(* callback's frame alone.                                                  *)
THEOREM OutputsExact == ASSUME OneWorker PROVE Spec => []OutputOfItsFrame
<1>1. Init => OutputInv
  <2> SUFFICES ASSUME Init PROVE OutputInv
    OBVIOUS
  <2>1. AverageOfFrame /\ CentroidOfFrame /\ CutsOfFrame /\ SumsOfFrame
    BY DEF Init, AverageOfFrame, CentroidOfFrame, CutsOfFrame, SumsOfFrame
  <2>2. OutputOfItsFrame
    BY DEF Init, OutputOfItsFrame
  <2> QED
    BY <2>1, <2>2 DEF OutputInv
<1>2. TypeOK /\ OutputInv /\ [Next]_vars => OutputInv'
  <2> SUFFICES ASSUME TypeOK, OutputInv, [Next]_vars PROVE OutputInv'
    OBVIOUS
  <2>1. CASE Camera \/ AtRest \/ UNCHANGED vars
    <3>1. UNCHANGED <<avg, cut, centroid, pv, pc, frame, want, bld>>
      BY <2>1 DEF Camera, Post, AtRest, vars, shared, output, local
    <3> QED
      BY <3>1 DEF OutputInv, AverageOfFrame, CentroidOfFrame, CutsOfFrame, SumsOfFrame,
         OutputOfItsFrame, Both
  <2>2. ASSUME NEW w \in Workers, Worker(w) PROVE OutputInv'
    BY <2>2, ArrivalKeepsOutput, CentroidKeepsOutput, ProfilesKeepOutput, ProjectionsKeepOutput
       DEF Worker
  <2> QED
    BY <2>1, <2>2 DEF Next
<1>3. OutputInv => OutputOfItsFrame
  BY DEF OutputInv
<1> QED
  BY <1>1, <1>2, <1>3, TypeCorrect, PTL DEF Spec

-----------------------------------------------------------------------------
(* The plugin implements the abstract frame service.                        *)

(* Frames are numbered in the order in which they were offered: those in    *)
(* the queue are in order and newer than every frame a worker has or whose  *)
(* packet was sent; an idle worker has none and no two have the same; a     *)
(* worker whose frame's packet was sent is past sending it.                 *)
QueueInOrder ==
  /\ \A i \in 1..Len(queue) : queue[i].id \in 1..posted
  /\ \A i, j \in 1..Len(queue) : i < j => queue[i].id < queue[j].id
FramesTaken ==
  \A w \in Workers :
    /\ pc[w] = "idle" <=> frame[w].id = 0
    /\ frame[w].id <= posted
    /\ \A i \in 1..Len(queue) : frame[w].id < queue[i].id
    /\ \A v \in Workers : v # w /\ pc[w] # "idle" => frame[v].id # frame[w].id
PacketsSent ==
  \A k \in 1..Len(packets) :
    /\ packets[k].frame.id \in 1..posted
    /\ \A i \in 1..Len(queue) : packets[k].frame.id < queue[i].id
    /\ \A w \in Workers : packets[k].frame.id = frame[w].id => pc[w] = "finish"
ServiceInv == QueueInOrder /\ FramesTaken /\ PacketsSent

(* The numbers of the frames of a sequence, and those of its packets.       *)
Ids(q) == [i \in 1..Len(q) |-> q[i].id]
SentIds(p) == [i \in 1..Len(p) |-> p[i].frame.id]

(* A function on an initial segment of the numbers is a sequence.           *)
LEMMA FunctionSeq ==
  ASSUME NEW S, NEW n \in Nat, NEW f \in [1..n -> S] PROVE f \in Seq(S) /\ Len(f) = n
<1>1. f \in Seq(S)
  OBVIOUS
<1> QED
  BY <1>1

(* The numbers of frames are a sequence of the same length.                 *)
LEMMA IdsType ==
  ASSUME NEW q \in Seq(FrameSet) PROVE Ids(q) \in Seq(0..MaxFrames) /\ Len(Ids(q)) = Len(q)
<1>1. Len(q) \in Nat /\ \A i \in 1..Len(q) : q[i].id \in 0..MaxFrames
  <2>1. \A i \in 1..Len(q) : q[i] \in FrameSet
    OBVIOUS
  <2> QED
    BY <2>1 DEF FrameSet
<1>2. Ids(q) \in [1..Len(q) -> 0..MaxFrames]
  BY <1>1 DEF Ids
<1> QED
  BY <1>1, <1>2, FunctionSeq

(* Numbers of a queue one frame longer.                                     *)
LEMMA IdsOfAppend ==
  ASSUME NEW q \in Seq(FrameSet), NEW f \in FrameSet PROVE Ids(Append(q, f)) = Append(Ids(q), f.id)
<1>1. Len(Append(q, f)) = Len(q) + 1 /\ Len(q) \in Nat
  OBVIOUS
<1>2. Ids(q) \in Seq(0..MaxFrames) /\ Len(Ids(q)) = Len(q)
  BY IdsType
<1> QED
  BY <1>1, <1>2 DEF Ids

(* Numbers of a queue whose head was taken.                                 *)
LEMMA IdsOfTail ==
  ASSUME NEW q \in Seq(FrameSet), q # <<>>
  PROVE  Ids(q) # <<>> /\ Head(Ids(q)) = Head(q).id /\ Ids(Tail(q)) = Tail(Ids(q))
<1>1. Len(q) \in Nat /\ Len(q) # 0 /\ Len(Tail(q)) = Len(q) - 1
  OBVIOUS
<1>2. Ids(q) \in Seq(0..MaxFrames) /\ Len(Ids(q)) = Len(q)
  BY IdsType
<1> QED
  BY <1>1, <1>2 DEF Ids

(* Numbers of the packets when one more is sent.                            *)
LEMMA SentIdsOfAppend ==
  ASSUME NEW R, NEW p \in Seq(R), NEW e \in R, \A r \in R : r.frame.id \in 0..MaxFrames
  PROVE  SentIds(Append(p, e)) = Append(SentIds(p), e.frame.id)
<1>1. Len(Append(p, e)) = Len(p) + 1 /\ Len(p) \in Nat
  OBVIOUS
<1>2. SentIds(p) \in Seq(0..MaxFrames) /\ Len(SentIds(p)) = Len(p)
  <2>1. \A i \in 1..Len(p) : p[i] \in R
    OBVIOUS
  <2>2. SentIds(p) \in [1..Len(p) -> 0..MaxFrames]
    BY <2>1 DEF SentIds
  <2> QED
    BY <1>1, <2>2, FunctionSeq
<1> QED
  BY <1>1, <1>2 DEF SentIds

(* Between taking a frame and leaving it, but for sending its packet, a     *)
(* worker does nothing the frame service knows of.                          *)
Inside(w) == Worker(w) /\ ~Receive(w) /\ ~SendBld(w) /\ ~Finish(w)

(* What such a step leaves alone.                                           *)
LEMMA InsideStep ==
  ASSUME TypeOK, NEW w \in Workers, Inside(w)
  PROVE  /\ UNCHANGED <<posted, queue, frame, packets>>
         /\ pc[w] \notin {"idle", "finish"} /\ pc'[w] # "idle"
<1> USE DEF Goto, TypeOK, input, output, local
<1>1. CASE Enter(w) \/ ResizeX(w) \/ ResizeY(w)
  BY <1>1 DEF Enter, ResizeX, ResizeY
<1>2. CASE Centroid(w)
  BY <1>2 DEF Centroid, CentroidBegin, CentroidRefused, CentroidOff, CentroidClear, CentroidRow,
     CentroidReduceX, CentroidReduceY, CentroidEnd
<1>3. CASE Profiles(w)
  BY <1>3 DEF Profiles, ProfilesBegin, ProfilesOff, CutX, CutY, ProfilesEnd
<1>4. CASE Projections(w)
  BY <1>4 DEF Projections, ProjectionsBegin, ProjectionsRefused, ProjectionsOff, ProjectionClear,
     ProjectionRow, ProjectionEnd
<1>5. CASE SendSkipped(w)
  BY <1>5 DEF SendSkipped
<1> QED
  BY <1>1, <1>2, <1>3, <1>4, <1>5 DEF Inside, Worker

(* Types of what the frame service sees.                                    *)
LEMMA ServiceTypes ==
  ASSUME TypeOK
  PROVE  /\ posted \in Nat /\ queue \in Seq(FrameSet) /\ Len(queue) \in Nat
         /\ \A i \in 1..Len(queue) : queue[i].id \in Int
         /\ frame \in [Workers -> FrameSet] /\ pc \in [Workers -> PC]
         /\ \A w \in Workers : frame[w].id \in Nat
<1>1. \A i \in 1..Len(queue) : queue[i] \in FrameSet
  BY DEF TypeOK
<1>2. \A f \in FrameSet : f.id \in 0..MaxFrames
  BY DEF FrameSet
<1>3. frame \in [Workers -> FrameSet] /\ queue \in Seq(FrameSet) /\ posted \in 0..MaxFrames
  BY DEF TypeOK
<1>4. MaxFrames \in Nat
  BY SpectrometerAssumption
<1> QED
  BY <1>1, <1>2, <1>3, <1>4 DEF TypeOK

(* The camera's frame is newer than all others.                             *)
LEMMA PostKeepsService ==
  ASSUME TypeOK, ServiceInv, NEW s \in Shapes, Post(s) PROVE ServiceInv'
<1> DEFINE f == FrameOf(posted + 1, s)
<1>1. /\ posted' = posted + 1 /\ UNCHANGED <<frame, pc, packets>>
      /\ queue' = queue \/ queue' = Append(queue, f)
  BY DEF Post, local, output
<1>2. f.id = posted + 1
  BY DEF FrameOf
<1>3. PICK n \in Nat :
        /\ Len(queue) <= n /\ Len(queue') = n /\ n <= Len(queue) + 1
        /\ \A i \in 1..n : \/ i <= Len(queue) /\ queue'[i] = queue[i]
                           \/ i = n /\ i > Len(queue) /\ queue'[i].id = posted + 1
  <2> HIDE DEF f
  <2>1. CASE queue' = queue
    BY <2>1, ServiceTypes
  <2>2. CASE queue' = Append(queue, f)
    <3>1. /\ Len(queue) + 1 \in Nat /\ Len(queue') = Len(queue) + 1
          /\ \A i \in 1..Len(queue) : queue'[i] = queue[i]
          /\ queue'[Len(queue) + 1] = f
      BY <2>2, ServiceTypes
    <3> QED
      BY <1>2, <3>1, ServiceTypes
  <2> QED
    BY <1>1, <2>1, <2>2
<1>4. posted \in Nat /\ Len(queue) \in Nat
  BY ServiceTypes
<1>5. \A i \in 1..Len(queue) : queue[i].id \in 1..posted
  BY DEF ServiceInv, QueueInOrder
<1>6. QueueInOrder'
  <2>1. \A i \in 1..n : queue'[i].id \in 1..posted + 1
    BY <1>3, <1>4, <1>5
  <2>2. ASSUME NEW i \in 1..n, NEW j \in 1..n, i < j PROVE queue'[i].id < queue'[j].id
    <3>1. queue'[i] = queue[i] /\ i \in 1..Len(queue)
      BY <1>3, <1>4, <2>2
    <3>2. CASE j <= Len(queue)
      BY <1>3, <1>4, <2>2, <3>1, <3>2 DEF ServiceInv, QueueInOrder
    <3>3. CASE j > Len(queue)
      BY <1>3, <1>4, <1>5, <3>1, <3>3
    <3> QED
      BY <1>4, <3>2, <3>3
  <2> QED
    BY <1>1, <1>3, <2>1, <2>2 DEF QueueInOrder
<1>7. FramesTaken'
  <2>1. ASSUME NEW w \in Workers, NEW i \in 1..n PROVE frame[w].id < queue'[i].id
    <3>1. frame[w].id <= posted /\ (\A j \in 1..Len(queue) : frame[w].id < queue[j].id)
      BY DEF ServiceInv, FramesTaken
    <3> QED
      BY <1>3, <1>4, <3>1, ServiceTypes
  <2>2. \A w \in Workers : frame[w].id <= posted + 1
    BY <1>4, ServiceTypes DEF ServiceInv, FramesTaken
  <2> QED
    BY <1>1, <1>3, <2>1, <2>2 DEF ServiceInv, FramesTaken
<1>8. PacketsSent'
  <2>1. ASSUME NEW k \in 1..Len(packets)
        PROVE  /\ packets[k].frame.id \in 1..posted + 1
               /\ \A i \in 1..n : packets[k].frame.id < queue'[i].id
    <3>1. /\ packets[k].frame.id \in 1..posted
          /\ \A i \in 1..Len(queue) : packets[k].frame.id < queue[i].id
      BY DEF ServiceInv, PacketsSent
    <3> QED
      BY <1>3, <1>4, <3>1
  <2> QED
    BY <1>1, <1>3, <2>1 DEF ServiceInv, PacketsSent
<1> QED
  BY <1>6, <1>7, <1>8 DEF ServiceInv

(* A worker takes the oldest frame of the queue, newer than any taken.      *)
LEMMA ReceiveKeepsService ==
  ASSUME TypeOK, ServiceInv, NEW w \in Workers, Receive(w) PROVE ServiceInv'
<1>1. /\ queue' = Tail(queue) /\ queue # <<>> /\ UNCHANGED <<posted, packets>> /\ pc[w] = "idle"
      /\ pc'[w] = "enter" /\ frame'[w] = queue[1]
      /\ \A v \in Workers \ {w} : pc'[v] = pc[v] /\ frame'[v] = frame[v]
  BY ServiceTypes DEF Receive, Goto, output
<1>2. PICK n \in Nat : Len(queue) = n + 1 /\ Len(queue') = n /\ \A i \in 1..n : queue'[i] = queue[i + 1]
  <2>1. /\ Len(queue) \in Nat /\ Len(queue) # 0 /\ Len(queue') = Len(queue) - 1
        /\ \A i \in 1..Len(queue) - 1 : queue'[i] = queue[i + 1]
    BY <1>1, ServiceTypes
  <2> QED
    BY <2>1
<1>3. \A i \in 1..n : queue'[i] = queue[i + 1] /\ i + 1 \in 1..Len(queue)
  BY <1>2
<1>4. 1 \in 1..Len(queue) /\ queue[1].id \in 1..posted
  BY <1>2 DEF ServiceInv, QueueInOrder
<1>5. \A i \in 1..n : queue[1].id < queue'[i].id
  BY <1>2, <1>3, <1>4 DEF ServiceInv, QueueInOrder
<1>6. QueueInOrder'
  BY <1>1, <1>2, <1>3 DEF ServiceInv, QueueInOrder
<1>7. FramesTaken'
  <2>1. ASSUME NEW v \in Workers, v # w
        PROVE  /\ pc'[v] = "idle" <=> frame'[v].id = 0
               /\ frame'[v].id <= posted /\ frame[v].id < queue[1].id
               /\ \A i \in 1..n : frame'[v].id < queue'[i].id
    BY <1>1, <1>3, <1>4, <2>1 DEF ServiceInv, FramesTaken
  <2>2. /\ pc'[w] # "idle" /\ frame'[w].id # 0 /\ frame'[w].id <= posted
        /\ \A i \in 1..n : frame'[w].id < queue'[i].id
    <3>1. queue[1].id # 0 /\ queue[1].id <= posted
      BY <1>4, ServiceTypes
    <3> QED
      BY <1>1, <1>5, <3>1
  <2>3. ASSUME NEW u \in Workers, NEW v \in Workers, u # v, pc'[u] # "idle"
        PROVE  frame'[v].id # frame'[u].id
    <3>1. \A x \in Workers \ {w} : frame'[x].id # frame'[w].id
      BY <1>1, <1>4, <2>1, ServiceTypes
    <3>2. CASE u # w /\ v # w
      BY <1>1, <2>3, <3>2 DEF ServiceInv, FramesTaken
    <3> QED
      BY <2>3, <3>1, <3>2
  <2> QED
    BY <1>1, <1>2, <2>1, <2>2, <2>3 DEF FramesTaken
<1>8. PacketsSent'
  <2>1. ASSUME NEW k \in 1..Len(packets)
        PROVE  /\ packets[k].frame.id \in 1..posted /\ packets[k].frame.id # queue[1].id
               /\ \A i \in 1..n : packets[k].frame.id < queue'[i].id
    <3>1. /\ packets[k].frame.id \in 1..posted
          /\ \A i \in 1..Len(queue) : packets[k].frame.id < queue[i].id
      BY DEF ServiceInv, PacketsSent
    <3>2. packets[k].frame.id # queue[1].id
      BY <1>4, <3>1, ServiceTypes
    <3> QED
      BY <1>3, <3>1, <3>2
  <2>2. ASSUME NEW k \in 1..Len(packets), NEW v \in Workers, packets[k].frame.id = frame'[v].id
        PROVE  pc'[v] = "finish"
    BY <1>1, <2>1, <2>2 DEF ServiceInv, PacketsSent
  <2> QED
    BY <1>1, <1>2, <2>1, <2>2 DEF PacketsSent
<1> QED
  BY <1>6, <1>7, <1>8 DEF ServiceInv

(* A packet is sent of a frame whose packet was not sent before.            *)
LEMMA SendKeepsService ==
  ASSUME TypeOK, ServiceInv, NEW w \in Workers, SendBld(w) PROVE ServiceInv'
<1> DEFINE p == [frame |-> frame[w], width |-> bld[w].width, from |-> bld[w].from]
<1>1. /\ packets' = Append(packets, p) /\ UNCHANGED <<posted, queue, frame>>
      /\ pc[w] = "send" /\ pc'[w] = "finish" /\ \A v \in Workers \ {w} : pc'[v] = pc[v]
  BY ServiceTypes DEF SendBld, Goto, input, local
<1>2. p.frame.id = frame[w].id
  OBVIOUS
<1>3. packets \in Seq([frame : FrameSet, width : Nat \cup {Null}, from : Contributors])
  BY DEF TypeOK
<1> HIDE DEF p
<1>4. Len(packets') = Len(packets) + 1 /\ packets'[Len(packets) + 1] = p
      /\ Len(packets) \in Nat /\ \A i \in 1 .. Len(packets) : packets'[i] = packets[i]
  BY <1>1, <1>3
<1>5. QueueInOrder' /\ FramesTaken'
  BY <1>1 DEF ServiceInv, QueueInOrder, FramesTaken
<1>6. PacketsSent'
  <2>1. /\ frame[w].id \in 1..posted /\ (\A i \in 1..Len(queue) : frame[w].id < queue[i].id)
        /\ \A v \in Workers : frame[w].id = frame[v].id => v = w
    BY <1>1, ServiceTypes DEF ServiceInv, FramesTaken
  <2>2. ASSUME NEW k \in 1..Len(packets)
        PROVE  /\ packets[k].frame.id \in 1..posted
               /\ \A i \in 1..Len(queue) : packets[k].frame.id < queue[i].id
               /\ \A v \in Workers : packets[k].frame.id = frame[v].id => pc'[v] = "finish"
    BY <1>1 DEF ServiceInv, PacketsSent
  <2>3. ASSUME NEW k \in 1..Len(packets')
        PROVE  /\ packets'[k].frame.id \in 1..posted
               /\ \A i \in 1..Len(queue) : packets'[k].frame.id < queue[i].id
               /\ \A v \in Workers : packets'[k].frame.id = frame[v].id => pc'[v] = "finish"
    <3>1. CASE k \in 1..Len(packets)
      BY <1>4, <2>2, <3>1
    <3>2. CASE k = Len(packets) + 1
      BY <1>1, <1>2, <1>4, <2>1, <3>2
    <3> QED
      BY <1>4, <3>1, <3>2
  <2> QED
    BY <1>1, <2>3 DEF PacketsSent
<1> QED
  BY <1>5, <1>6 DEF ServiceInv

(* With any number of workers, frames and packets stay in order.            *)
LEMMA ServiceInvariant == Spec => []ServiceInv
<1>1. Init => ServiceInv
  BY DEF Init, ServiceInv, QueueInOrder, FramesTaken, PacketsSent, NoFrame, Junk
<1>2. TypeOK /\ ServiceInv /\ [Next]_vars => ServiceInv'
  <2> SUFFICES ASSUME TypeOK, ServiceInv, [Next]_vars PROVE ServiceInv'
    OBVIOUS
  <2>1. CASE Camera
    BY <2>1, PostKeepsService DEF Camera
  <2>2. CASE AtRest \/ UNCHANGED vars
    BY <2>2 DEF AtRest, vars, input, output, local, ServiceInv, QueueInOrder, FramesTaken,
       PacketsSent
  <2>3. ASSUME NEW w \in Workers, Inside(w) PROVE ServiceInv'
    <3>1. /\ UNCHANGED <<posted, queue, frame, packets>>
          /\ pc[w] \notin {"idle", "finish"} /\ pc'[w] # "idle"
          /\ \A v \in Workers \ {w} : pc'[v] = pc[v]
      BY <2>3, InsideStep, OthersKeep DEF Inside
    <3>2. QueueInOrder' /\ FramesTaken'
      BY <3>1 DEF ServiceInv, QueueInOrder, FramesTaken
    <3>3. PacketsSent'
      BY <3>1 DEF ServiceInv, PacketsSent
    <3> QED
      BY <3>2, <3>3 DEF ServiceInv
  <2>4. ASSUME NEW w \in Workers, Finish(w) PROVE ServiceInv'
    <3>1. /\ UNCHANGED <<posted, queue, packets>> /\ pc'[w] = "idle" /\ frame'[w].id = 0
          /\ \A v \in Workers \ {w} : pc'[v] = pc[v] /\ frame'[v] = frame[v]
      BY <2>4, ServiceTypes DEF Finish, Goto, input, output, NoFrame, Junk
    <3>2. QueueInOrder' /\ posted \in Nat
      BY <3>1, ServiceTypes DEF ServiceInv, QueueInOrder
    <3>3. FramesTaken'
      BY <3>1, <3>2 DEF ServiceInv, FramesTaken, QueueInOrder
    <3>4. PacketsSent'
      BY <3>1 DEF ServiceInv, PacketsSent
    <3> QED
      BY <3>2, <3>3, <3>4 DEF ServiceInv
  <2> QED
    BY <2>1, <2>2, <2>3, <2>4, ReceiveKeepsService, SendKeepsService DEF Next, Inside
<1> QED
  BY <1>1, <1>2, TypeCorrect, PTL DEF Spec

(* With any number of workers the plugin implements the abstract frame      *)
(* service: frames are served in the order offered, and the packet of a     *)
(* frame is sent at most once, by the worker that has the frame.            *)
THEOREM FrameServiceImplemented == Spec => ImplementsFrameService
<1> DEFINE waiting == Ids(queue)
           serving == [w \in Workers |-> frame[w].id]
           sent == SentIds(packets)
<1>1. Init => Abstract!Init
  BY DEF Init, Abstract!Init, NoFrame, Junk
<1>2. TypeOK /\ ServiceInv /\ [Next]_vars => [Abstract!Next]_(Abstract!vars)
  <2> SUFFICES ASSUME TypeOK, ServiceInv, [Next]_vars
               PROVE  Abstract!Next \/ UNCHANGED <<posted, waiting, serving, sent>>
    BY DEF Abstract!vars, Ids, SentIds
  <2>1. CASE Camera
    <3>1. PICK s \in Shapes : Post(s)
      BY <2>1 DEF Camera
    <3>2. FrameOf(posted + 1, s) \in FrameSet /\ FrameOf(posted + 1, s).id = posted + 1
      <4>1. posted + 1 \in 0..MaxFrames
        BY <3>1, SpectrometerAssumption DEF Post, TypeOK
      <4> QED
        BY <4>1, FrameOfType DEF FrameOf
    <3>3. waiting' \in {waiting, Append(waiting, posted + 1)}
      BY <3>1, <3>2, IdsOfAppend, ServiceTypes DEF Post
    <3>4. posted < MaxFrames /\ posted' = posted + 1 /\ UNCHANGED <<frame, packets>>
      BY <3>1 DEF Post, local, output
    <3>5. UNCHANGED <<serving, sent>>
      BY <3>4
    <3> HIDE DEF serving, sent
    <3>6. Abstract!Offer
      BY <3>3, <3>4, <3>5 DEF Abstract!Offer, serving, sent, Ids, SentIds
    <3> QED
      BY <3>6 DEF Abstract!Next
  <2>2. ASSUME NEW w \in Workers, Receive(w) PROVE Abstract!Next
    <3>1. /\ queue # <<>> /\ queue \in Seq(FrameSet) /\ queue' = Tail(queue)
          /\ frame' = [frame EXCEPT ![w] = Head(queue)] /\ UNCHANGED <<posted, packets>>
          /\ pc[w] = "idle"
      BY <2>2, ServiceTypes DEF Receive, output
    <3>2. waiting # <<>> /\ waiting' = Tail(waiting) /\ Head(waiting) = Head(queue).id
      BY <3>1, IdsOfTail
    <3>3. serving' = [serving EXCEPT ![w] = Head(waiting)]
      BY <3>1, <3>2, ServiceTypes
    <3>4. serving[w] = 0 /\ UNCHANGED <<posted, sent>>
      BY <3>1 DEF ServiceInv, FramesTaken
    <3>5. Abstract!Take(w)
      BY <3>2, <3>3, <3>4 DEF Abstract!Take, Ids, SentIds
    <3> QED
      BY <3>5 DEF Abstract!Next
  <2>3. ASSUME NEW w \in Workers, SendBld(w) PROVE Abstract!Next
    <3> DEFINE R == [frame : FrameSet, width : Nat \cup {Null}, from : Contributors]
               p == [frame |-> frame[w], width |-> bld[w].width, from |-> bld[w].from]
    <3>1. /\ packets' = Append(packets, p) /\ UNCHANGED <<posted, queue, frame>> /\ pc[w] = "send"
      BY <2>3 DEF SendBld, input, local
    <3>2. packets \in Seq(R) /\ p \in R /\ p.frame.id = frame[w].id
      BY DEF TypeOK
    <3>3. \A r \in R : r.frame.id \in 0..MaxFrames
      BY DEF FrameSet
    <3> HIDE DEF R, p
    <3>4. sent' = Append(sent, frame[w].id)
      BY <3>1, <3>2, <3>3, SentIdsOfAppend
    <3>5. serving[w] = frame[w].id /\ serving[w] # 0 /\ UNCHANGED <<posted, waiting, serving>>
      BY <3>1 DEF ServiceInv, FramesTaken
    <3>6. \A k \in 1..Len(sent) : sent[k] # serving[w]
      <4>1. Len(packets) \in Nat
        BY <3>2
      <4>2. Len(sent) = Len(packets) /\ \A k \in 1..Len(packets) : sent[k] = packets[k].frame.id
        BY <4>1 DEF SentIds
      <4> QED
        BY <3>1, <3>5, <4>2 DEF ServiceInv, PacketsSent
    <3>7. Abstract!Send(w)
      BY <3>4, <3>5, <3>6 DEF Abstract!Send, Ids, SentIds
    <3> QED
      BY <3>7 DEF Abstract!Next
  <2>4. ASSUME NEW w \in Workers, Finish(w) PROVE Abstract!Next
    <3>1. /\ frame' = [frame EXCEPT ![w] = NoFrame] /\ UNCHANGED <<posted, queue, packets>>
          /\ pc[w] = "finish"
      BY <2>4 DEF Finish, input, output
    <3>2. serving' = [serving EXCEPT ![w] = 0]
      BY <3>1, ServiceTypes DEF NoFrame, Junk
    <3>3. serving[w] # 0 /\ UNCHANGED <<posted, waiting, sent>>
      BY <3>1 DEF ServiceInv, FramesTaken
    <3>4. Abstract!Finish(w)
      BY <3>2, <3>3 DEF Abstract!Finish, Ids, SentIds
    <3> QED
      BY <3>4 DEF Abstract!Next
  <2>5. ASSUME NEW w \in Workers, Inside(w) PROVE UNCHANGED <<posted, waiting, serving, sent>>
    <3>1. UNCHANGED <<posted, queue, frame, packets>>
      BY <2>5, InsideStep
    <3> QED
      BY <3>1
  <2>6. CASE AtRest \/ UNCHANGED vars
    <3>1. UNCHANGED <<posted, queue, frame, packets>>
      BY <2>6 DEF AtRest, vars, input, local, output
    <3> QED
      BY <3>1
  <2> QED
    BY <2>1, <2>2, <2>3, <2>4, <2>5, <2>6 DEF Next, Inside
<1> QED
  BY <1>1, <1>2, TypeCorrect, ServiceInvariant, PTL DEF Spec, ImplementsFrameService, Abstract!Spec
=============================================================================
