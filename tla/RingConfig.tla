----------------------------- MODULE RingConfig -----------------------------
(***************************************************************************)
(* Configuration of the DMA ring in libedt (edtApp/lib/libedt.c): which    *)
(* memory each ring buffer points to, who owns it, and what the driver has *)
(* attached, through every call that configures, extends or disables the   *)
(* ring, with every place a call can fail half-way.                        *)
(*                                                                         *)
(* A pointer is a memory block and a place in it.  The library allocates a *)
(* block with edt_alloc ("heap") or mmap ("map"); block User stands for    *)
(* memory of the application.  The calls are made by one thread.           *)
(***************************************************************************)
EXTENDS Integers, FiniteSetsExt

CONSTANTS MaxBufs,         \* MAX_DMA_BUFFERS, which bounds numbufs too
          Numbers,         \* values of numbufs the application asks for
          Modes,           \* arguments of edt_set_mmap_buffers
          ModeWhileMapped, \* TRUE: it may be called while a base buffer exists
          MayAdd,          \* TRUE: the application calls edt_add_ring_buffer
          Failures,        \* what can fail: subset of {"alloc", "attach", "map"}
          MaxBlocks        \* bound: blocks the library has allocated at a time

ASSUME RingConfigAssumption ==
  /\ MaxBufs \in Nat \ {0} /\ MaxBlocks \in Nat
  /\ Numbers \subseteq 1 .. MaxBufs
  /\ Modes \subseteq BOOLEAN /\ ModeWhileMapped \in BOOLEAN /\ MayAdd \in BOOLEAN
  /\ Failures \subseteq {"alloc", "attach", "map"}

Slots == 0 .. MaxBufs - 1
Blocks == 1 .. MaxBlocks
None == 0                  \* base_buffer = NULL
User == MaxBlocks + 1      \* memory of the application
Kernel == MaxBlocks + 2    \* kernel memory behind the mapping
Null == [block |-> None, at |-> 0]
At(b, i) == [block |-> b, at |-> i]
Hows == {"library", "bufarray", "user_mem"}

VARIABLES
  mode,       \* EDT_MMAP_KBUFS in the driver
  mmap,       \* edt_p->mmap_buffers
  numbufs,    \* edt_p->ring_buffer_numbufs
  configured, \* edt_p->ring_buffers_configured
  base,       \* edt_p->base_buffer
  ring,       \* edt_p->ring_buffers
  owned,      \* edt_p->rb_control[i].owned
  attached,   \* driver: the memory attached as buffer i
  drvbufs,    \* driver: number of buffers (EDTS_NUMBUFS)
  memory,     \* state of each block the library allocated
  faults,     \* illegal frees committed
  pc, want, how, index, rc, \* the call in progress: step, arguments, loop index, result
  promised,   \* (history) buffers of the last successful configuration
  clean       \* (history) no configuration failed, nothing was added without one

device == <<mmap, numbufs, configured, base, ring, owned>>
driver == <<attached, drvbufs>>
blocks == <<memory, faults>>
call   == <<want, how, index, rc>>
history == <<promised, clean>>
vars == <<mode, device, driver, blocks, pc, call, history>>

Init ==
  /\ mode = FALSE /\ mmap = FALSE /\ numbufs = 0 /\ configured = FALSE /\ base = None
  /\ ring = [i \in Slots |-> Null] /\ owned = [i \in Slots |-> FALSE]
  /\ attached = [i \in Slots |-> Null] /\ drvbufs = 1
  /\ memory = [b \in Blocks |-> "unused"] /\ faults = {}
  /\ pc = "idle" /\ want = 0 /\ how = "library" /\ index = 0 /\ rc = 0
  /\ promised = 0 /\ clean = TRUE

Unused == {b \in Blocks : memory[b] = "unused"}
Fresh == Min(Unused)

Mapped(p) == p.block \in Blocks /\ memory[p.block] = "map"
Live(p) == p.block \in {User, Kernel} \/ (p.block \in Blocks /\ memory[p.block] \in {"heap", "map"})

(* Blocks that something points to.                                          *)
Held == {base} \cup {ring[i].block : i \in Slots} \cup {attached[i].block : i \in Slots}

(* edt_free of heap blocks, munmap of mapped ones; the rest is a fault.  A   *)
(* block nothing points to any more may be allocated again.                  *)
Release(heap, map) ==
  /\ memory' = [b \in Blocks |-> IF b \notin heap \cup map THEN memory[b]
                                ELSE IF b \in Held' THEN "gone" ELSE "unused"]
  /\ faults' = faults \cup {"free" : b \in {x \in heap : x \notin Blocks \/ memory[x] # "heap"}}
                      \cup {"munmap" : b \in {x \in map : x \notin Blocks \/ memory[x] # "map"}}

BaseBlock == IF base = None THEN {} ELSE {base}

(* edt_disable_ring_buffers: detaches and forgets the buffers below numbufs,*)
(* frees those the library owns, then the base buffer, by the mode edt_p    *)
(* holds now.                                                               *)
InUse == {i \in 0 .. numbufs - 1 : ring[i] # Null}

(* Faulty variant: the base buffer is forgotten, not freed.                 *)
DisableKeepsBase ==
  /\ attached' = [i \in Slots |-> IF i \in InUse THEN Null ELSE attached[i]]
  /\ ring' = [i \in Slots |-> IF i \in InUse THEN Null ELSE ring[i]]
  /\ configured' = FALSE /\ base' = None /\ numbufs' = 0 /\ drvbufs' = 1
  /\ promised' = 0
  /\ Release({ring[i].block : i \in {j \in InUse : owned[j]}}, {})
  /\ UNCHANGED <<mmap, owned>>

Disable ==
  /\ attached' = [i \in Slots |-> IF i \in InUse THEN Null ELSE attached[i]]
  /\ ring' = [i \in Slots |-> IF i \in InUse THEN Null ELSE ring[i]]
  /\ configured' = FALSE /\ base' = None /\ numbufs' = 0 /\ drvbufs' = 1
  /\ promised' = 0
  /\ LET mine == {ring[i].block : i \in {j \in InUse : owned[j]}}
     IN IF mmap THEN Release(mine, BaseBlock) ELSE Release(mine \cup BaseBlock, {})
  /\ UNCHANGED <<mmap, owned>>

-----------------------------------------------------------------------------
(* edt_set_mmap_buffers: the driver's flag only.                            *)
SetMmap(on) ==
  /\ pc = "idle" /\ on # mode
  /\ ModeWhileMapped \/ base = None
  /\ mode' = on
  /\ UNCHANGED <<device, driver, blocks, pc, call, history>>

Return(result) ==
  /\ pc' = "idle" /\ rc' = result
  /\ want' = 0 /\ how' = "library" /\ index' = 0

(* edt_configure_ring_buffers (bufarray or not) and                         *)
(* edt_configure_block_buffers_mem: the mode is fetched, then a user        *)
(* pointer refused in mmap mode.  An odd size or too many buffers return    *)
(* before that and change nothing.                                          *)
CallConfigure(n, h) ==
  /\ pc = "idle"
  /\ mmap' = mode
  /\ IF mode /\ h # "library"
     THEN Return(-1)
     ELSE /\ pc' = IF configured THEN "disable" ELSE "number"
          /\ want' = n /\ how' = h /\ index' = 0 /\ rc' = 0
  /\ UNCHANGED <<mode, numbufs, configured, base, ring, owned, driver, blocks, history>>

DisableOld ==
  /\ pc = "disable" /\ Disable /\ pc' = "number"
  /\ UNCHANGED <<mode, call, clean>>

(* numbufs and EDTS_NUMBUFS are set before anything can fail.               *)
SetNumbufs ==
  /\ pc = "number"
  /\ numbufs' = want /\ drvbufs' = want
  /\ pc' = IF how = "bufarray" \/ mmap THEN "attach" ELSE "allocate"
  /\ UNCHANGED <<mode, mmap, configured, base, ring, owned, attached, blocks, call, history>>

(* edt_allocate_ring_buffer_memory.  A base buffer a failed call left is    *)
(* freed first.                                                             *)
FreeBase ==
  /\ pc = "allocate" /\ base # None
  /\ base' = None
  /\ UNCHANGED <<mode, mmap, numbufs, configured, ring, owned, driver, pc, call, history>>
  /\ Release({base}, {})

Allocate ==
  /\ pc = "allocate" /\ base = None
  /\ how = "library" => Unused # {}
  /\ IF how = "library"
     THEN base' = Fresh /\ memory' = [memory EXCEPT ![Fresh] = "heap"]
     ELSE UNCHANGED <<base, memory>>
  /\ pc' = "attach"
  /\ UNCHANGED <<mode, mmap, numbufs, configured, ring, owned, driver, faults, call, history>>

AllocateFails ==
  /\ pc = "allocate" /\ base = None /\ how = "library" /\ "alloc" \in Failures
  /\ Return(-1) /\ clean' = FALSE
  /\ UNCHANGED <<mode, device, driver, blocks, promised>>

(* Faulty variant: every buffer at the start of the base buffer.            *)
BufferAtBase(i) ==
  IF mmap THEN Null ELSE At(IF how = "library" THEN base ELSE User, 0)

(* edt_configure_ring_buffer of the loop in edt_setup_ring_buffers.         *)
Buffer(i) ==
  IF mmap THEN Null ELSE At(IF how = "library" THEN base ELSE User, i)

(* Faulty variant: rb_control[i].owned keeps what it was.                   *)
AttachKeepsOwner ==
  /\ pc = "attach" /\ index < want
  /\ ring' = [ring EXCEPT ![index] = Buffer(index)]
  /\ attached' = [attached EXCEPT ![index] = IF mmap THEN At(Kernel, index) ELSE Buffer(index)]
  /\ index' = index + 1
  /\ UNCHANGED <<mode, mmap, numbufs, configured, base, owned, drvbufs, blocks, pc, want, how, rc,
                 history>>

Attach ==
  /\ pc = "attach" /\ index < want
  /\ ring' = [ring EXCEPT ![index] = Buffer(index)]
  /\ owned' = [owned EXCEPT ![index] = FALSE]
  /\ attached' = [attached EXCEPT ![index] = IF mmap THEN At(Kernel, index) ELSE Buffer(index)]
  /\ index' = index + 1
  /\ UNCHANGED <<mode, mmap, numbufs, configured, base, drvbufs, blocks, pc, want, how, rc, history>>

AttachFails ==
  /\ pc = "attach" /\ index < want /\ "attach" \in Failures
  /\ ring' = [ring EXCEPT ![index] = Buffer(index)]
  /\ owned' = [owned EXCEPT ![index] = FALSE]
  /\ Return(-1) /\ clean' = FALSE
  /\ UNCHANGED <<mode, mmap, numbufs, configured, base, driver, blocks, promised>>

(* The end of edt_setup_ring_buffers.  In mmap mode the kernel buffers are  *)
(* mapped first and the ring points into the mapping.                       *)
Success ==
  /\ configured' = TRUE /\ promised' = want
  /\ Return(0)

Finish ==
  /\ pc = "attach" /\ index = want /\ ~mmap
  /\ Success
  /\ UNCHANGED <<mode, mmap, numbufs, base, ring, owned, driver, blocks, clean>>

Map ==
  /\ pc = "attach" /\ index = want /\ mmap /\ Unused # {}
  /\ base' = Fresh /\ memory' = [memory EXCEPT ![Fresh] = "map"]
  /\ ring' = [i \in Slots |-> IF i < want THEN At(Fresh, i) ELSE ring[i]]
  /\ Success
  /\ UNCHANGED <<mode, mmap, numbufs, owned, driver, faults, clean>>

MapFails ==
  /\ pc = "attach" /\ index = want /\ mmap /\ "map" \in Failures
  /\ base' = None
  /\ Return(-1) /\ clean' = FALSE
  /\ UNCHANGED <<mode, mmap, numbufs, configured, ring, owned, driver, blocks, promised>>

(* edt_add_ring_buffer: the first free slot gets the application's buffer   *)
(* or one of the library's own; whatever the driver answers, the index is   *)
(* returned.                                                                *)
FreeSlots == {i \in Slots : ring[i] = Null}

Add(mine) ==
  LET i == Min(FreeSlots) IN
  /\ pc = "idle" /\ MayAdd /\ ~mmap /\ FreeSlots # {} /\ numbufs < MaxBufs
  /\ numbufs' = numbufs + 1 /\ drvbufs' = numbufs + 1
  /\ owned' = [owned EXCEPT ![i] = mine]
  /\ \/ /\ mine /\ Unused # {}
        /\ ring' = [ring EXCEPT ![i] = At(Fresh, 0)]
        /\ memory' = [memory EXCEPT ![Fresh] = "heap"]
     \/ /\ mine /\ "alloc" \in Failures /\ UNCHANGED <<ring, memory>>
     \/ /\ ~mine /\ ring' = [ring EXCEPT ![i] = At(User, i)] /\ UNCHANGED memory
  /\ \/ ring'[i] # Null /\ attached' = [attached EXCEPT ![i] = ring'[i]]
     \/ "attach" \in Failures /\ UNCHANGED attached
  /\ clean' = (clean /\ configured)
  /\ UNCHANGED <<mode, mmap, configured, base, faults, pc, call, promised>>

CallDisable ==
  /\ pc = "idle" /\ Disable
  /\ UNCHANGED <<mode, pc, call, clean>>

(* edt_close: only a completed configuration is disabled.  Closing the file *)
(* detaches what is left in the driver.                                     *)
CloseConfigured ==
  /\ pc = "idle" /\ configured /\ Disable /\ pc' = "closed"
  /\ UNCHANGED <<mode, call, clean>>

CloseOther ==
  /\ pc = "idle" /\ ~configured /\ pc' = "closed"
  /\ attached' = [i \in Slots |-> Null] /\ drvbufs' = 1
  /\ UNCHANGED <<mode, device, blocks, call, history>>

-----------------------------------------------------------------------------
ConfigureStep ==
  \/ DisableOld \/ SetNumbufs \/ FreeBase \/ Allocate \/ AllocateFails
  \/ Attach \/ AttachFails \/ Finish \/ Map \/ MapFails

Next ==
  \/ \E on \in Modes : SetMmap(on)
  \/ \E n \in Numbers, h \in Hows : CallConfigure(n, h)
  \/ ConfigureStep
  \/ \E mine \in BOOLEAN : Add(mine)
  \/ CallDisable \/ CloseConfigured \/ CloseOther

Spec == Init /\ [][Next]_vars

-----------------------------------------------------------------------------
Pointers == [block : 0 .. MaxBlocks + 2, at : Slots]

(* Type of every variable.                                                  *)
TypeOK ==
  /\ mode \in BOOLEAN /\ mmap \in BOOLEAN /\ configured \in BOOLEAN
  /\ numbufs \in 0 .. MaxBufs /\ drvbufs \in 0 .. MaxBufs
  /\ base \in {None} \cup Blocks
  /\ ring \in [Slots -> Pointers] /\ owned \in [Slots -> BOOLEAN]
  /\ attached \in [Slots -> Pointers]
  /\ memory \in [Blocks -> {"unused", "heap", "map", "gone"}]
  /\ faults \subseteq {"free", "munmap"}
  /\ pc \in {"idle", "disable", "number", "allocate", "attach", "closed"}
  /\ want \in 0 .. MaxBufs /\ how \in Hows /\ index \in 0 .. MaxBufs /\ rc \in {0, -1}
  /\ promised \in 0 .. MaxBufs /\ clean \in BOOLEAN

(* The library frees a block once, by the call that matches its allocation, *)
(* and never memory of the application, whatever failed before.             *)
FreesWhatItOwns == faults = {}

(* Once a configuration has succeeded, each of its buffers points to memory *)
(* of its own that is still there, and the driver transfers into that same  *)
(* memory.                                                                  *)
ConfiguredRingUsable ==
  configured /\ pc = "idle" =>
    /\ promised <= numbufs /\ drvbufs = numbufs
    /\ \A i \in 0 .. promised - 1 :
         /\ ring[i] # Null /\ Live(ring[i])
         /\ attached[i] = IF Mapped(ring[i]) THEN At(Kernel, i) ELSE ring[i]
         /\ \A j \in 0 .. i - 1 : ring[j] # ring[i]

(* Everything allocated is gone after edt_close, if every configuration     *)
(* succeeded and buffers were added to a configured ring only.              *)
LiveBlocks == {b \in Blocks : memory[b] \in {"heap", "map"}}
CloseReleases == pc = "closed" /\ clean => LiveBlocks = {}
=============================================================================
