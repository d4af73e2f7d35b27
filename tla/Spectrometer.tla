---------------------------- MODULE Spectrometer ----------------------------
(***************************************************************************)
(* PluginSpectrometer (edtApp/lib/pluginBldSpectrometer.cpp): an           *)
(* areaDetector plugin whose worker threads take camera frames from the    *)
(* plugin's queue and run processCallbacks on ONE plugin object.           *)
(*                                                                         *)
(* processCallbacks is entered with the port mutex held; each of           *)
(* doComputeCentroid, doComputeProfiles and doComputeProjections gives the *)
(* mutex up while it computes and takes it again to publish.  The profile  *)
(* buffers, their sizes and the centroid are members of the object, so     *)
(* they stay visible to the other workers while the mutex is free.         *)
(*                                                                         *)
(* Pixel values are abstracted to where they come from: the content of a   *)
(* buffer or of a published value is the set of the frames that            *)
(* contributed to it, with Junk for memory nobody has written.             *)
(***************************************************************************)
EXTENDS Integers, Sequences, FiniteSets

CONSTANTS Workers,      \* the plugin's callback threads (NumThreads of maxThreads)
          Shapes,       \* what a frame may look like: records [w, h, usable, pulse]
          GarbageSizes, \* what profileSizeX/Y may hold before any assignment
          Cursors,      \* values of the cursor and of the centroid, as size_t sees them
          QueueSize,    \* capacity of the plugin's message queue
          MaxFrames     \* bound: frames the camera posts in a behaviour

ShapeType == [w : Nat, h : Nat, usable : BOOLEAN, pulse : BOOLEAN]

ASSUME SpectrometerAssumption ==
  /\ Shapes \subseteq ShapeType
  /\ \A s \in Shapes : s.w = 0 <=> s.h = 0     \* no array with one empty dimension
  /\ GarbageSizes \subseteq Nat /\ GarbageSizes # {}
  /\ Cursors \subseteq Nat /\ Cursors # {}
  /\ QueueSize \in Nat /\ MaxFrames \in Nat

NoWorker == "no worker"
ASSUME NoWorkerAssumption == NoWorker \notin Workers

Null == -1              \* length of a profile buffer that was never allocated
Junk == 0               \* contributor of unwritten memory; frames are 1, 2, ...
Flags == {"centroid", "profiles", "projections", "send"}

VARIABLES
  posted,   \* frames the camera has offered so far
  queue,    \* frames waiting in the plugin's message queue
  lock,     \* holder of the port mutex
  size,     \* members profileSizeX, profileSizeY
  len,      \* number of doubles the buffers profileX[*], profileY[*] really hold
  avg,      \* contributors to profAverage and profThreshold, in x and in y
  cut,      \* contributors to profCentroid and profCursor, in x and in y
  centroid, \* contributors to members centroidX/sigmaX and centroidY/sigmaY
  pv,       \* per output: the frame it was published for, its contributors, and whether
            \* that callback had recomputed it
  packets,  \* BLD packets handed to BldSendPacket
  faults,   \* kinds of illegal memory access committed so far
  pc,       \* per worker: where in processCallbacks it is
  frame,    \* per worker: the array being processed
  want,     \* per worker: the switches as read at the start of the callback
  row, pos, \* per worker: iy and pData of the loop over the frame
  bld       \* per worker: its local bldData

shared == <<size, len, avg, cut, centroid>>
output == <<pv, packets>>
input  == <<posted, queue>>
local  == <<frame, want, row, pos, bld>>
vars   == <<input, lock, shared, output, faults, pc, local>>

Dims == {"x", "y"}
AllOff == [f \in Flags |-> FALSE]
NoFrame == [id |-> Junk, w |-> 0, h |-> 0, usable |-> FALSE, pulse |-> FALSE]
NoBld == [width |-> Null, len |-> 0, from |-> {Junk}]
FrameOf(n, s) == [id |-> n, w |-> s.w, h |-> s.h, usable |-> s.usable, pulse |-> s.pulse]
Pixels(f) == f.w * f.h
Both(content) == content["x"] \cup content["y"]

Init ==
  /\ posted = 0 /\ queue = <<>>
  /\ lock = NoWorker
  /\ size \in [Dims -> GarbageSizes]
  /\ len = [d \in Dims |-> Null]
  /\ avg = [d \in Dims |-> {Junk}] /\ cut = [d \in Dims |-> {Junk}]
  /\ centroid = [d \in Dims |-> {Junk}]
  /\ pv = [o \in {"centroid", "average", "cut", "proj"} |-> [by |-> Junk, from |-> {}, fresh |-> FALSE]]
  /\ packets = <<>>
  /\ faults = {}
  /\ pc = [w \in Workers |-> "idle"]
  /\ frame = [w \in Workers |-> NoFrame]
  /\ want = [w \in Workers |-> AllOff]
  /\ row = [w \in Workers |-> 0] /\ pos = [w \in Workers |-> 0]
  /\ bld = [w \in Workers |-> NoBld]

-----------------------------------------------------------------------------
(* Illegal accesses.  Reading or writing n elements of a buffer of length   *)
(* l, and n pixels of frame f from offset p.                                *)
BufferFault(l, n) ==
  IF n = 0 \/ n <= l THEN {} ELSE IF l = Null THEN {"null"} ELSE {"short"}
FrameFault(f, p, n) == IF n = 0 \/ p + n <= Pixels(f) THEN {} ELSE {"overrun"}

(* MIN(MAX(i, 0), n - 1) on size_t: with n = 0 the bound wraps to the       *)
(* largest size_t and does not clamp.                                       *)
Clamp(i, n) == IF n > 0 /\ i > n - 1 THEN n - 1 ELSE i

Goto(w, l) == pc' = [pc EXCEPT ![w] = l]
Holds(w) == lock = w
Unlock == lock' = NoWorker
Acquire(w) == lock = NoWorker /\ lock' = w
Output(w, content, isFresh) == [by |-> frame[w].id, from |-> content, fresh |-> isFresh]

-----------------------------------------------------------------------------
(* The camera driver offers a frame: it is queued or, with the queue full,  *)
(* dropped.                                                                 *)
Post(s) ==
  /\ posted < MaxFrames
  /\ posted' = posted + 1
  /\ queue' = IF Len(queue) < QueueSize THEN Append(queue, FrameOf(posted + 1, s)) ELSE queue
  /\ UNCHANGED <<lock, shared, output, faults, pc, local>>

(* Clients write the switches, the threshold and the cursor at any time the *)
(* mutex is free, which every worker lets happen before it reads them, so a *)
(* worker reads any of their values.  A write does nothing else: pArrays[0] *)
(* is never set (#if 0 at 767-772), so the recomputations in writeInt32 and *)
(* writeFloat64 never run.                                                  *)
Switches == [Flags -> BOOLEAN]

-----------------------------------------------------------------------------
(* Faulty variant: the frame stays in the queue for another worker.         *)
ReceiveAndKeep(w) ==
  /\ pc[w] = "idle" /\ queue # <<>>
  /\ frame' = [frame EXCEPT ![w] = Head(queue)]
  /\ Goto(w, "enter")
  /\ UNCHANGED <<input, lock, shared, output, faults, want, row, pos, bld>>

(* A worker: take a frame, enter the callback, follow the frame's size.     *)
Receive(w) ==
  /\ pc[w] = "idle" /\ queue # <<>>
  /\ frame' = [frame EXCEPT ![w] = Head(queue)]
  /\ queue' = Tail(queue)
  /\ Goto(w, "enter")
  /\ UNCHANGED <<posted, lock, shared, output, faults, want, row, pos, bld>>

Enter(w) ==
  /\ pc[w] = "enter" /\ Acquire(w)
  /\ \E switches \in Switches : want' = [want EXCEPT ![w] = switches]
  /\ Goto(w, "resize x")
  /\ UNCHANGED <<input, shared, output, faults, frame, row, pos, bld>>

(* Faulty variants: the last index kept instead of the size, which wraps    *)
(* for an empty frame; the buffers allocated once only.                     *)
ResizeToLast(d, n) ==
  /\ size' = [size EXCEPT ![d] = n - 1] /\ len' = [len EXCEPT ![d] = n]
  /\ UNCHANGED <<avg, cut>>
ResizeAllocatesOnce(d, n) ==
  /\ size' = [size EXCEPT ![d] = n]
  /\ len' = [len EXCEPT ![d] = IF @ = Null THEN n ELSE @]
  /\ UNCHANGED <<avg, cut>>

(* free and malloc of every profile buffer of one dimension.                *)
Resize(d, n) ==
  IF n # size[d]
  THEN /\ size' = [size EXCEPT ![d] = n]
       /\ len' = [len EXCEPT ![d] = n]
       /\ avg' = [avg EXCEPT ![d] = {Junk}]
       /\ cut' = [cut EXCEPT ![d] = {Junk}]
  ELSE UNCHANGED <<size, len, avg, cut>>

ResizeX(w) ==
  /\ pc[w] = "resize x" /\ Holds(w)
  /\ Resize("x", frame[w].w)
  /\ Goto(w, "resize y")
  /\ UNCHANGED <<input, lock, centroid, output, faults, local>>

ResizeY(w) ==
  /\ pc[w] = "resize y" /\ Holds(w)
  /\ Resize("y", frame[w].h)
  /\ Goto(w, "centroid")
  /\ UNCHANGED <<input, lock, centroid, output, faults, local>>

-----------------------------------------------------------------------------
(* doComputeCentroid.  A frame with more than two dimensions or an unknown  *)
(* data type is refused, its status ignored and the members published as    *)
(* they are.                                                                *)
PublishCentroid(w) ==
  pv' = [pv EXCEPT !["centroid"] = Output(w, Both(centroid), frame[w].usable)]

CentroidBegin(w) ==
  /\ pc[w] = "centroid" /\ Holds(w) /\ want[w].centroid /\ frame[w].usable
  /\ Unlock
  /\ Goto(w, "clear")
  /\ UNCHANGED <<input, shared, output, faults, local>>

CentroidRefused(w) ==
  /\ pc[w] = "centroid" /\ Holds(w) /\ want[w].centroid /\ ~frame[w].usable
  /\ PublishCentroid(w)
  /\ Goto(w, "profiles")
  /\ UNCHANGED <<input, lock, shared, packets, faults, local>>

CentroidOff(w) ==
  /\ pc[w] = "centroid" /\ Holds(w) /\ ~want[w].centroid
  /\ Goto(w, "profiles")
  /\ UNCHANGED <<input, lock, shared, output, faults, local>>

(* Faulty variant: no memset of profAverage.                                *)
CentroidClearSumsOnly(w) ==
  /\ pc[w] = "clear"
  /\ centroid' = [d \in Dims |-> {}]
  /\ row' = [row EXCEPT ![w] = 0] /\ pos' = [pos EXCEPT ![w] = 0]
  /\ Goto(w, "sweep")
  /\ UNCHANGED <<input, lock, size, len, avg, cut, output, faults, frame, want, bld>>

CentroidClear(w) ==
  /\ pc[w] = "clear"
  /\ centroid' = [d \in Dims |-> {}]
  /\ avg' = [d \in Dims |-> {}]
  /\ faults' = faults \cup BufferFault(len["x"], size["x"]) \cup BufferFault(len["y"], size["y"])
  /\ row' = [row EXCEPT ![w] = 0] /\ pos' = [pos EXCEPT ![w] = 0]
  /\ Goto(w, "sweep")
  /\ UNCHANGED <<input, lock, size, len, cut, output, frame, want, bld>>

(* One row of the frame: profileSizeX and profileSizeY are read again from  *)
(* the object at every row, as the loops do.                                *)
CentroidRow(w) ==
  /\ pc[w] = "sweep" /\ row[w] < size["y"]
  /\ faults' = faults \cup FrameFault(frame[w], pos[w], size["x"])
                      \cup BufferFault(len["x"], size["x"])
                      \cup BufferFault(len["y"], row[w] + 1)
  /\ avg' = [d \in Dims |-> avg[d] \cup {frame[w].id}]
  /\ row' = [row EXCEPT ![w] = @ + 1] /\ pos' = [pos EXCEPT ![w] = @ + size["x"]]
  /\ UNCHANGED <<input, lock, size, len, cut, centroid, output, pc, frame, want, bld>>

(* The x pass and then the y pass turn the buffers into the centroid.       *)
CentroidReduceX(w) ==
  /\ pc[w] = "sweep" /\ row[w] >= size["y"]
  /\ centroid' = [centroid EXCEPT !["x"] = avg["x"]]
  /\ faults' = faults \cup BufferFault(len["x"], size["x"])
  /\ Goto(w, "reduce y")
  /\ UNCHANGED <<input, lock, size, len, avg, cut, output, local>>

CentroidReduceY(w) ==
  /\ pc[w] = "reduce y"
  /\ centroid' = [centroid EXCEPT !["y"] = avg["y"]]
  /\ faults' = faults \cup BufferFault(len["y"], size["y"])
  /\ Goto(w, "centroid done")
  /\ UNCHANGED <<input, lock, size, len, avg, cut, output, local>>

(* Faulty variant: published without taking the mutex back.                 *)
CentroidEndUnlocked(w) ==
  /\ pc[w] = "centroid done"
  /\ PublishCentroid(w)
  /\ Goto(w, "profiles")
  /\ UNCHANGED <<input, lock, shared, packets, faults, local>>

CentroidEnd(w) ==
  /\ pc[w] = "centroid done" /\ Acquire(w)
  /\ PublishCentroid(w)
  /\ Goto(w, "profiles")
  /\ UNCHANGED <<input, shared, packets, faults, local>>

-----------------------------------------------------------------------------
(* doComputeProfiles: the row and the column through the centroid and       *)
(* through the cursor, then the eight profile arrays are published.         *)
ProfilesBegin(w) ==
  /\ pc[w] = "profiles" /\ Holds(w) /\ want[w].profiles /\ frame[w].usable
  /\ Unlock
  /\ Goto(w, "cut x")
  /\ UNCHANGED <<input, shared, output, faults, local>>

ProfilesOff(w) ==
  /\ pc[w] = "profiles" /\ Holds(w) /\ ~(want[w].profiles /\ frame[w].usable)
  /\ Goto(w, "projections")
  /\ UNCHANGED <<input, lock, shared, output, faults, local>>

(* Row y of the frame is copied from offset y * profileSizeX; column x is   *)
(* read with stride profileSizeX.  The cursor is a member clients write, the *)
(* centroid the result of a division: either can be any number.             *)
RowFault(f, y) == FrameFault(f, Clamp(y, size["y"]) * size["x"], size["x"])
ColumnFault(f, x) ==
  IF size["y"] = 0 THEN {}
  ELSE FrameFault(f, Clamp(x, size["x"]) + (size["y"] - 1) * size["x"], 1)

CutX(w) ==
  /\ pc[w] = "cut x"
  /\ \E y \in Cursors :
       faults' = faults \cup BufferFault(len["x"], size["x"]) \cup RowFault(frame[w], y)
  /\ cut' = [cut EXCEPT !["x"] = {frame[w].id}]
  /\ Goto(w, "cut y")
  /\ UNCHANGED <<input, lock, size, len, avg, centroid, output, local>>

CutY(w) ==
  /\ pc[w] = "cut y"
  /\ \E x \in Cursors :
       faults' = faults \cup BufferFault(len["y"], size["y"]) \cup ColumnFault(frame[w], x)
  /\ cut' = [cut EXCEPT !["y"] = {frame[w].id}]
  /\ Goto(w, "cut done")
  /\ UNCHANGED <<input, lock, size, len, avg, centroid, output, local>>

ProfilesEnd(w) ==
  /\ pc[w] = "cut done" /\ Acquire(w)
  /\ faults' = faults \cup BufferFault(len["x"], size["x"]) \cup BufferFault(len["y"], size["y"])
  /\ pv' = [pv EXCEPT !["average"] = Output(w, Both(avg), want[w].centroid),
                      !["cut"]     = Output(w, Both(cut), TRUE)]
  /\ Goto(w, "projections")
  /\ UNCHANGED <<input, shared, packets, local>>

-----------------------------------------------------------------------------
(* doComputeProjections: the horizontal projection, summed in the worker's  *)
(* own bldData.  Its status is ignored too: a refused frame goes on to the  *)
(* BLD packet with bldData as the stack left it.                            *)
ProjectionsBegin(w) ==
  /\ pc[w] = "projections" /\ Holds(w) /\ want[w].projections /\ frame[w].usable
  /\ Unlock
  /\ Goto(w, "projection")
  /\ UNCHANGED <<input, shared, output, faults, local>>

ProjectionsRefused(w) ==
  /\ pc[w] = "projections" /\ Holds(w) /\ want[w].projections /\ ~frame[w].usable
  /\ Goto(w, "send")
  /\ UNCHANGED <<input, lock, shared, output, faults, local>>

ProjectionsOff(w) ==
  /\ pc[w] = "projections" /\ Holds(w) /\ ~want[w].projections
  /\ Goto(w, "finish")
  /\ UNCHANGED <<input, lock, shared, output, faults, local>>

(* Faulty variant: no memset of bldData.                                    *)
ProjectionDirty(w) ==
  /\ pc[w] = "projection"
  /\ bld' = [bld EXCEPT ![w] = [width |-> size["x"], len |-> size["x"], from |-> {Junk}]]
  /\ row' = [row EXCEPT ![w] = 0] /\ pos' = [pos EXCEPT ![w] = 0]
  /\ Goto(w, "project")
  /\ UNCHANGED <<input, lock, shared, output, faults, frame, want>>

ProjectionClear(w) ==
  /\ pc[w] = "projection"
  /\ bld' = [bld EXCEPT ![w] = [width |-> size["x"], len |-> size["x"], from |-> {}]]
  /\ row' = [row EXCEPT ![w] = 0] /\ pos' = [pos EXCEPT ![w] = 0]
  /\ Goto(w, "project")
  /\ UNCHANGED <<input, lock, shared, output, faults, frame, want>>

ProjectionRow(w) ==
  /\ pc[w] = "project" /\ row[w] < size["y"]
  /\ faults' = faults \cup FrameFault(frame[w], pos[w], size["x"])
                      \cup BufferFault(bld[w].len, size["x"])
  /\ bld' = [bld EXCEPT ![w].from = @ \cup {frame[w].id}]
  /\ row' = [row EXCEPT ![w] = @ + 1] /\ pos' = [pos EXCEPT ![w] = @ + size["x"]]
  /\ UNCHANGED <<input, lock, shared, output, pc, frame, want>>

(* The PV gets m_HorizProjWidth elements of an array of profileSizeX.       *)
ProjectionEnd(w) ==
  /\ pc[w] = "project" /\ row[w] >= size["y"] /\ Acquire(w)
  /\ faults' = faults \cup BufferFault(bld[w].len, size["x"])
                      \cup BufferFault(size["x"], bld[w].width)
  /\ pv' = [pv EXCEPT !["proj"] = Output(w, bld[w].from, TRUE)]
  /\ Goto(w, "send")
  /\ UNCHANGED <<input, shared, packets, local>>

-----------------------------------------------------------------------------
(* Faulty variant: the packet is sent again and again.                      *)
SendBldAgain(w) ==
  /\ pc[w] = "send" /\ Holds(w) /\ want[w].send /\ frame[w].pulse
  /\ packets' = Append(packets, [frame |-> frame[w], width |-> bld[w].width,
                                 from |-> bld[w].from])
  /\ UNCHANGED <<input, lock, shared, pv, faults, pc, local>>

(* doSendBld: packs width and projection and hands the packet over.         *)
SendBld(w) ==
  /\ pc[w] = "send" /\ Holds(w) /\ want[w].send /\ frame[w].pulse
  /\ faults' = faults \cup (IF bld[w].width = Null THEN {"junk"}
                            ELSE BufferFault(bld[w].len, bld[w].width))
  /\ packets' = Append(packets, [frame |-> frame[w], width |-> bld[w].width,
                                 from |-> bld[w].from])
  /\ Goto(w, "finish")
  /\ UNCHANGED <<input, lock, shared, pv, local>>

SendSkipped(w) ==
  /\ pc[w] = "send" /\ Holds(w) /\ ~(want[w].send /\ frame[w].pulse)
  /\ Goto(w, "finish")
  /\ UNCHANGED <<input, lock, shared, output, faults, local>>

(* Faulty variant: the callback returns without the base class's unlock.    *)
FinishLocked(w) ==
  /\ pc[w] = "finish" /\ Holds(w)
  /\ frame' = [frame EXCEPT ![w] = NoFrame]
  /\ Goto(w, "idle")
  /\ UNCHANGED <<input, lock, shared, output, faults, want, row, pos, bld>>

(* callParamCallbacks; the base class unlocks and releases the array.       *)
Finish(w) ==
  /\ pc[w] = "finish" /\ Holds(w)
  /\ Unlock
  /\ frame' = [frame EXCEPT ![w] = NoFrame]
  /\ want' = [want EXCEPT ![w] = AllOff]
  /\ row' = [row EXCEPT ![w] = 0] /\ pos' = [pos EXCEPT ![w] = 0]
  /\ bld' = [bld EXCEPT ![w] = NoBld]
  /\ Goto(w, "idle")
  /\ UNCHANGED <<input, shared, output, faults>>

-----------------------------------------------------------------------------
Camera ==
  \E s \in Shapes : Post(s)

Centroid(w) ==
  \/ CentroidBegin(w) \/ CentroidRefused(w) \/ CentroidOff(w)
  \/ CentroidClear(w) \/ CentroidRow(w)
  \/ CentroidReduceX(w) \/ CentroidReduceY(w) \/ CentroidEnd(w)

Profiles(w) ==
  ProfilesBegin(w) \/ ProfilesOff(w) \/ CutX(w) \/ CutY(w) \/ ProfilesEnd(w)

Projections(w) ==
  \/ ProjectionsBegin(w) \/ ProjectionsRefused(w) \/ ProjectionsOff(w)
  \/ ProjectionClear(w) \/ ProjectionRow(w) \/ ProjectionEnd(w)

Worker(w) ==
  \/ Receive(w) \/ Enter(w) \/ ResizeX(w) \/ ResizeY(w)
  \/ Centroid(w) \/ Profiles(w) \/ Projections(w)
  \/ SendBld(w) \/ SendSkipped(w) \/ Finish(w)

(* The bound on frames is reached and the plugin has come to rest.          *)
AtRest ==
  /\ posted = MaxFrames /\ queue = <<>> /\ \A w \in Workers : pc[w] = "idle"
  /\ UNCHANGED vars

Next == Camera \/ AtRest \/ \E w \in Workers : Worker(w)

(* Every worker thread keeps running, and one that keeps asking for the     *)
(* port mutex, which clients and workers hold only briefly, gets it.        *)
Fairness == \A w \in Workers : SF_vars(Worker(w))

Spec == Init /\ [][Next]_vars
FairSpec == Spec /\ Fairness

-----------------------------------------------------------------------------
FrameSet == [id : 0..MaxFrames, w : Nat, h : Nat, usable : BOOLEAN, pulse : BOOLEAN]
Contributors == SUBSET (0..MaxFrames)
PC == {"idle", "enter", "resize x", "resize y", "centroid", "clear", "sweep",
       "reduce y", "centroid done", "profiles", "cut x", "cut y", "cut done",
       "projections", "projection", "project", "send", "finish"}

(* Type of every variable.                                                  *)
TypeOK ==
  /\ posted \in 0..MaxFrames
  /\ queue \in Seq(FrameSet)
  /\ lock \in Workers \cup {NoWorker}
  /\ size \in [Dims -> Nat] /\ len \in [Dims -> Nat \cup {Null}]
  /\ avg \in [Dims -> Contributors] /\ cut \in [Dims -> Contributors]
  /\ centroid \in [Dims -> Contributors]
  /\ pv \in [{"centroid", "average", "cut", "proj"} ->
               [by : 0..MaxFrames, from : Contributors, fresh : BOOLEAN]]
  /\ packets \in Seq([frame : FrameSet, width : Nat \cup {Null}, from : Contributors])
  /\ faults \subseteq {"null", "short", "overrun", "junk"}
  /\ pc \in [Workers -> PC]
  /\ frame \in [Workers -> FrameSet]
  /\ want \in [Workers -> Switches]
  /\ row \in [Workers -> Nat] /\ pos \in [Workers -> Nat]
  /\ bld \in [Workers -> [width : Nat \cup {Null}, len : Nat, from : Contributors]]

(* Only the holder of the port mutex is inside a locked section of          *)
(* processCallbacks: every doCompute function takes back exactly what it    *)
(* gave up, on every path out of it.                                        *)
LockedSections == {"resize x", "resize y", "centroid", "profiles", "projections",
                   "send", "finish"}
LockDiscipline == \A w \in Workers : pc[w] \in LockedSections <=> lock = w

(* No worker reads or writes beyond a profile buffer or beyond the frame it *)
(* was given, while loops that run without the mutex read profileSizeX/Y    *)
(* from the object; and a buffer that was never allocated is touched only   *)
(* if the uninitialised size happened to be the size of a frame.            *)
GarbageIsAFrameSize == \E s \in Shapes : (({s.w, s.h} \ {0}) \cap GarbageSizes) # {}
Harmless(kinds) ==
  /\ kinds \cap {"short", "overrun"} = {}
  /\ "null" \in kinds => GarbageIsAFrameSize
MemorySafe == Harmless(faults)

(* Why it is so: the parts of the inductive invariant behind MemorySafe.    *)
BeforeX == {"idle", "enter", "resize x"}
BeforeY == BeforeX \cup {"resize y"}
Shaped(f) == \E s \in Shapes : f.w = s.w /\ f.h = s.h

FramesShaped ==
  /\ \A i \in 1..Len(queue) : Shaped(queue[i])
  /\ \A w \in Workers : pc[w] # "idle" => Shaped(frame[w])
SizeOfFrame ==
  \A w \in Workers : /\ pc[w] \notin BeforeX => size["x"] = frame[w].w
                     /\ pc[w] \notin BeforeY => size["y"] = frame[w].h
BuffersFit ==
  \A d \in Dims : \/ len[d] = size[d]
                 \/ (len[d] = Null /\ size[d] \in GarbageSizes)
LoopsInFrame ==
  \A w \in Workers : pc[w] \in {"sweep", "project"} =>
    pos[w] = row[w] * size["x"] /\ row[w] <= size["y"]
ProjectionFits ==
  \A w \in Workers : /\ bld[w].width <= bld[w].len
                     /\ pc[w] = "project" => bld[w].len = size["x"] /\ bld[w].width = size["x"]
MemoryInv ==
  FramesShaped /\ SizeOfFrame /\ BuffersFit /\ LoopsInFrame /\ ProjectionFits /\ MemorySafe

(* An output recomputed in a callback is made of that callback's frame      *)
(* alone, although the buffers, the centroid and the sizes it is computed   *)
(* in are shared by all workers and the mutex is free meanwhile.            *)
OutputOfItsFrame == \A o \in DOMAIN pv : pv[o].fresh => pv[o].from \subseteq {pv[o].by}

(* A BLD packet of a frame the plugin can process carries the projection of *)
(* that frame over its full width, and only frames with a pulse id in their *)
(* time stamp are sent.                                                     *)
PacketOfItsFrame ==
  \A i \in 1..Len(packets) :
    LET p == packets[i]
    IN  /\ p.frame.pulse
        /\ p.frame.usable => p.width = p.frame.w /\ p.from \subseteq {p.frame.id}

(* The plugin implements the abstract frame service: frames are taken in    *)
(* the order in which the camera offered them and a packet is sent at most  *)
(* once, by the worker that has the frame, with any number of workers.      *)
Abstract == INSTANCE FrameService WITH
  Servers <- Workers, MaxOffers <- MaxFrames, offered <- posted,
  waiting <- [i \in 1..Len(queue) |-> queue[i].id],
  serving <- [w \in Workers |-> frame[w].id],
  sent <- [i \in 1..Len(packets) |-> packets[i].frame.id]
ImplementsFrameService == Abstract!Spec

(* Every frame accepted into the queue leaves the plugin: no worker keeps   *)
(* the mutex for ever, or waits for it for ever, on any path.               *)
InPlugin(n) ==
  \/ \E i \in 1..Len(queue) : queue[i].id = n
  \/ \E w \in Workers : frame[w].id = n
EveryFrameLeaves == \A n \in 1..MaxFrames : InPlugin(n) ~> ~InPlugin(n)
=============================================================================
