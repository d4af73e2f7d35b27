-------------------------- MODULE TransfersProofs ---------------------------
(***************************************************************************)
(* Theorems about RingConfig, and about Transfers, which adds to it, for   *)
(* every number of buffers, every bound on the blocks, every size, header  *)
(* and granularity and every set of failures, of an application that       *)
(* changes the mode only while there is no base buffer (ModeWhileMapped =  *)
(* FALSE).  The first half speaks of RingConfig alone.                     *)
(***************************************************************************)
EXTENDS Transfers, WellFoundedInduction, TLAPS

(* Facts about natural numbers that no prover finds by itself.              *)

(* A set of natural numbers has a least element.                            *)
LEMMA LeastNumber ==
  ASSUME NEW S \in SUBSET Nat, S # {}
  PROVE  \E x \in S : \A y \in S : x <= y
<1> DEFINE R == {pair \in Nat \X Nat : pair[1] < pair[2]}
<1>1. IsWellFoundedOn(R, Nat)
  BY NatLessThanWellFounded DEF OpToRel
<1>2. \A x, y \in Nat : y < x => <<y, x>> \in R
  <2> SUFFICES ASSUME NEW x \in Nat, NEW y \in Nat, y < x PROVE <<y, x>> \in R
    OBVIOUS
  <2>1. <<y, x>> \in Nat \X Nat /\ <<y, x>>[1] < <<y, x>>[2]
    OBVIOUS
  <2> QED
    BY <2>1, Zenon DEF R
<1> HIDE DEF R
<1>3. PICK x \in S : \A y \in S : <<y, x>> \notin R
  BY <1>1, WFMin
<1>4. \A y \in S : ~ (y < x)
  BY <1>2, <1>3
<1> QED
  BY <1>3, <1>4

(* Division with remainder, and that it is unique.                          *)
LEMMA Division ==
  ASSUME NEW x \in Int, NEW n \in Nat \ {0}
  PROVE  /\ x \div n \in Int /\ x % n \in 0 .. n - 1
         /\ x = n * (x \div n) + (x % n)
BY SMT

(* The remainder of a number written as a multiple and a rest.              *)
LEMMA Remainder ==
  ASSUME NEW n \in Nat \ {0}, NEW q \in Int, NEW r \in 0 .. n - 1
  PROVE  (n * q + r) % n = r
BY SMT

(* A number below the divisor is its own remainder.                         *)
LEMMA SmallRemainder == ASSUME NEW n \in Nat \ {0}, NEW x \in 0 .. n - 1 PROVE x % n = x
BY SMT

(* Counting on from a remainder.                                            *)
LEMMA RemainderOfNext ==
  ASSUME NEW x \in Int, NEW n \in Nat \ {0} PROVE ((x % n) + 1) % n = (x + 1) % n
<1> DEFINE q == x \div n
           r == x % n
<1>1. q \in Int /\ r \in 0 .. n - 1 /\ x = n * q + r
  BY Division
<1> HIDE DEF q, r
<1> SUFFICES (r + 1) % n = (x + 1) % n
  BY DEF r
<1>2. CASE r + 1 < n
  <2>1. (x + 1) % n = r + 1
    <3>1. r + 1 \in 0 .. n - 1 /\ x + 1 = n * q + (r + 1)
      BY <1>1, <1>2
    <3> QED
      BY <1>1, <3>1, Remainder
  <2>2. (r + 1) % n = r + 1
    BY <1>1, <1>2, SmallRemainder
  <2> QED
    BY <2>1, <2>2
<1>3. CASE r + 1 = n
  <2>1. (x + 1) % n = 0
    <3>1. q + 1 \in Int /\ 0 \in 0 .. n - 1 /\ x + 1 = n * (q + 1) + 0
      BY <1>1, <1>3, SMT
    <3> QED
      BY <3>1, Remainder
  <2>2. (r + 1) % n = 0
    <3>1. 0 \in 0 .. n - 1 /\ r + 1 = n * 1 + 0
      BY <1>1, <1>3
    <3> QED
      BY <3>1, Remainder
  <2> QED
    BY <2>1, <2>2
<1> QED
  BY <1>1, <1>2, <1>3

(* The next multiple is not smaller.                                        *)
LEMMA RoundUp ==
  ASSUME NEW x \in Nat, NEW n \in Nat \ {0}
  PROVE  n * ((x + n - 1) \div n) \in Nat /\ n * ((x + n - 1) \div n) >= x
<1>1. n * ((x + n - 1) \div n) >= x
  BY SMT
<1>2. n * ((x + n - 1) \div n) \in Int
  BY Division
<1> QED
  BY <1>1, <1>2

-----------------------------------------------------------------------------
(* What a call of the configuration in progress has settled.                *)
Calling ==
  /\ pc \in {"disable", "number", "allocate", "attach"} => mmap = mode /\ (mmap => how = "library")
  /\ pc \in {"disable", "number", "allocate", "attach"} => want \in 1 .. MaxBufs
  /\ pc \in {"disable", "number", "allocate"} => index = 0
  /\ pc \in {"allocate", "attach"} => numbufs = want /\ drvbufs = want /\ index <= want
  /\ pc \in {"number", "allocate", "attach", "closed"} => ~configured
  /\ pc = "disable" => configured
  /\ pc = "allocate" => ~mmap
  /\ pc = "attach" /\ ~mmap /\ how = "library" => base # None

(* The base buffer was allocated the way the mode says, and the mode is     *)
(* still what the driver has.                                               *)
BaseOfMode ==
  base # None => mmap = mode /\ memory[base] = IF mmap THEN "map" ELSE "heap"

(* A buffer the library owns is in a heap block that is there, and that no  *)
(* other owned buffer, nor the base buffer, is in.                          *)
Mine(i) == owned[i] /\ ring[i] # Null
OwnBlocks ==
  \A i \in Slots : Mine(i) =>
    /\ ring[i].block \in Blocks /\ memory[ring[i].block] = "heap" /\ ring[i].block # base
    /\ \A j \in Slots : Mine(j) /\ j # i => ring[j].block # ring[i].block

(* The loop over the buffers has attached those below its index.            *)
AttachedSoFar ==
  pc = "attach" =>
    \A i \in 0 .. index - 1 :
      /\ ~owned[i]
      /\ attached[i] = IF mmap THEN At(Kernel, i) ELSE Buffer(i)
      /\ ~mmap => ring[i] = Buffer(i)

(* A buffer of a configured ring is part of the base buffer or of the       *)
(* application's memory, at its own place.  Without one nothing is promised.*)
Usable ==
  /\ ~configured => promised = 0
  /\ configured =>
       /\ promised <= numbufs /\ drvbufs = numbufs
       /\ \A i \in 0 .. promised - 1 :
            /\ ring[i] = At(User, i) \/ (base # None /\ ring[i] = At(base, i))
            /\ attached[i] = IF Mapped(ring[i]) THEN At(Kernel, i) ELSE ring[i]

(* While nothing has failed, every block allocated is the base buffer or    *)
(* one of those the library owns, all of them below numbufs, and there is   *)
(* none without a configuration.                                            *)
Accounted ==
  clean =>
    /\ \A b \in LiveBlocks : b = base \/ \E i \in Slots : Mine(i) /\ b = ring[i].block
    /\ \A i \in Slots : i >= numbufs => ring[i] = Null
    /\ ~configured =>
         /\ \A i \in Slots : ~Mine(i)
         /\ pc # "attach" => \A i \in Slots : ring[i] = Null
         /\ pc # "attach" \/ mmap => base = None

RingInv ==
  /\ TypeOK
  /\ Calling /\ BaseOfMode /\ OwnBlocks /\ AttachedSoFar /\ Usable /\ Accounted
  /\ FreesWhatItOwns

-----------------------------------------------------------------------------
(* Blocks.                                                                  *)

(* The block taken for a new allocation is one of the unused ones.          *)
LEMMA FreshUnused == Unused # {} => Fresh \in Blocks /\ memory[Fresh] = "unused"
<1> SUFFICES ASSUME Unused # {} PROVE Fresh \in Unused
  BY DEF Unused
<1>1. Unused \in SUBSET Nat
  BY RingConfigAssumption DEF Unused, Blocks
<1>2. \E x \in Unused : \A y \in Unused : x <= y
  BY <1>1, LeastNumber
<1>3. Fresh = CHOOSE x \in Unused : \A y \in Unused : x <= y
  BY DEF Fresh, Min
<1> QED
  BY <1>2, <1>3

(* A pointer is its block and its place.                                    *)
LEMMA PointerParts ==
  /\ Null.block = None
  /\ \A b, i : At(b, i).block = b /\ At(b, i).at = i
BY DEF Null, At

(* The first free slot is free, and no free slot is before it.              *)
LEMMA FirstFreeSlot ==
  FreeSlots # {} => Min(FreeSlots) \in FreeSlots /\ \A i \in FreeSlots : Min(FreeSlots) <= i
<1> SUFFICES ASSUME FreeSlots # {}
             PROVE  Min(FreeSlots) \in FreeSlots /\ \A i \in FreeSlots : Min(FreeSlots) <= i
  OBVIOUS
<1>1. FreeSlots \in SUBSET Nat
  BY RingConfigAssumption DEF FreeSlots, Slots
<1>2. \E x \in FreeSlots : \A y \in FreeSlots : x <= y
  BY <1>1, LeastNumber
<1>3. Min(FreeSlots) = CHOOSE x \in FreeSlots : \A y \in FreeSlots : x <= y
  BY DEF Min
<1> QED
  BY <1>2, <1>3

MemoryType == memory \in [Blocks -> {"unused", "heap", "map", "gone"}]

(* Blocks released by the call that matches their allocation are no longer  *)
(* there, all others are what they were, and nothing illegal is freed.      *)
LEMMA ReleaseFacts ==
  ASSUME MemoryType, NEW heap, NEW map, Release(heap, map),
         \A b \in heap : b \in Blocks /\ memory[b] = "heap",
         \A b \in map : b \in Blocks /\ memory[b] = "map"
  PROVE  /\ MemoryType' /\ faults' = faults
         /\ \A b \in Blocks : IF b \in heap \cup map THEN memory'[b] \in {"gone", "unused"}
                              ELSE memory'[b] = memory[b]
<1>1. memory' = [b \in Blocks |-> IF b \notin heap \cup map THEN memory[b]
                                  ELSE IF b \in Held' THEN "gone" ELSE "unused"]
  BY Zenon DEF Release
<1>2. {x \in heap : x \notin Blocks \/ memory[x] # "heap"} = {}
      /\ {x \in map : x \notin Blocks \/ memory[x] # "map"} = {}
  OBVIOUS
<1>3. faults' = faults \cup {"free" : b \in {}} \cup {"munmap" : b \in {}}
  BY <1>2, Zenon DEF Release
<1>4. faults' = faults
  BY <1>3
<1> HIDE DEF Held
<1>5. \A b \in Blocks : IF b \in heap \cup map THEN memory'[b] \in {"gone", "unused"}
                        ELSE memory'[b] = memory[b]
  BY <1>1
<1>6. MemoryType'
  BY <1>1 DEF MemoryType
<1> QED
  BY <1>4, <1>5, <1>6

-----------------------------------------------------------------------------
(* edt_disable_ring_buffers.                                                *)

(* It frees blocks of the library's that are there, each the right way;     *)
(* afterwards a buffer still owned is as before, and nothing is left        *)
(* allocated while nothing has failed.                                      *)
LEMMA DisableFacts ==
  ASSUME RingInv, Disable
  PROVE  /\ UNCHANGED <<mmap, owned, faults>> /\ MemoryType'
         /\ ring' \in [Slots -> Pointers] /\ attached' \in [Slots -> Pointers]
         /\ configured' = FALSE /\ base' = None /\ numbufs' = 0 /\ drvbufs' = 1 /\ promised' = 0
         /\ \A i \in Slots : ring'[i] = ring[i] \/ ring'[i] = Null
         /\ \A i \in Slots : Mine(i)' => Mine(i) /\ memory'[ring[i].block] = memory[ring[i].block]
         /\ clean => LiveBlocks' = {} /\ \A i \in Slots : ring'[i] = Null
<1> DEFINE mine == {ring[i].block : i \in {j \in InUse : owned[j]}}
<1>1. /\ ring' = [i \in Slots |-> IF i \in InUse THEN Null ELSE ring[i]]
      /\ attached' = [i \in Slots |-> IF i \in InUse THEN Null ELSE attached[i]]
      /\ IF mmap THEN Release(mine, BaseBlock) ELSE Release(mine \cup BaseBlock, {})
      /\ UNCHANGED <<mmap, owned>>
      /\ configured' = FALSE /\ base' = None /\ numbufs' = 0 /\ drvbufs' = 1 /\ promised' = 0
  BY Zenon DEF Disable
<1>2. /\ TypeOK /\ MemoryType /\ numbufs \in 0 .. MaxBufs
      /\ ring \in [Slots -> Pointers] /\ attached \in [Slots -> Pointers]
  BY DEF RingInv, TypeOK, MemoryType
<1>3. \A i \in Slots : i \in InUse <=> i < numbufs /\ ring[i] # Null
  BY <1>2, RingConfigAssumption DEF InUse, Slots
<1>4. InUse \subseteq Slots
  BY <1>2, RingConfigAssumption DEF InUse, Slots
<1>5. \A b \in mine : \E i \in Slots : Mine(i) /\ i \in InUse /\ b = ring[i].block
  BY <1>3, <1>4 DEF Mine
<1> HIDE DEF mine
<1>6. \A b \in mine : b \in Blocks /\ memory[b] = "heap"
  <2>1. \A i \in Slots : Mine(i) => ring[i].block \in Blocks /\ memory[ring[i].block] = "heap"
    BY DEF RingInv, OwnBlocks
  <2> QED
    BY <1>5, <2>1
<1>7. \A b \in BaseBlock : b \in Blocks /\ memory[b] = IF mmap THEN "map" ELSE "heap"
  BY <1>2 DEF RingInv, TypeOK, BaseOfMode, BaseBlock
<1>8. /\ MemoryType' /\ faults' = faults
      /\ \A b \in Blocks : IF b \in mine \cup BaseBlock THEN memory'[b] \in {"gone", "unused"}
                           ELSE memory'[b] = memory[b]
  <2>1. CASE mmap
    BY <1>1, <1>2, <1>6, <1>7, <2>1, ReleaseFacts
  <2>2. CASE ~mmap
    <3>1. Release(mine \cup BaseBlock, {})
      BY <1>1, <2>2
    <3>2. \A b \in mine \cup BaseBlock : b \in Blocks /\ memory[b] = "heap"
      BY <1>6, <1>7, <2>2
    <3>3. \A b \in {} : b \in Blocks /\ memory[b] = "map"
      OBVIOUS
    <3> HIDE DEF BaseBlock
    <3>4. (mine \cup BaseBlock) \cup {} = mine \cup BaseBlock
      OBVIOUS
    <3> QED
      BY <1>2, <3>1, <3>2, <3>3, <3>4, ReleaseFacts
  <2> QED
    BY <2>1, <2>2
<1>9. Null \in Pointers
  BY RingConfigAssumption DEF Null, None, Pointers, Slots
<1>10. ring' \in [Slots -> Pointers] /\ attached' \in [Slots -> Pointers]
  BY <1>1, <1>2, <1>9
<1>11. \A i \in Slots : ring'[i] = IF i \in InUse THEN Null ELSE ring[i]
  BY <1>1
<1>12. \A i \in Slots : Mine(i)' => Mine(i) /\ memory'[ring[i].block] = memory[ring[i].block]
  <2> SUFFICES ASSUME NEW i \in Slots, Mine(i)'
               PROVE  Mine(i) /\ memory'[ring[i].block] = memory[ring[i].block]
    OBVIOUS
  <2>1. Mine(i) /\ i \notin InUse
    BY <1>1, <1>11 DEF Mine
  <2>2. ring[i].block \in Blocks /\ ring[i].block # base
    BY <2>1, Zenon DEF RingInv, OwnBlocks
  <2>3. ring[i].block \notin mine
    <3> SUFFICES ASSUME NEW j \in Slots, Mine(j), j \in InUse, ring[i].block = ring[j].block
                 PROVE  FALSE
      BY <1>5
    <3>1. i # j
      BY <2>1
    <3> QED
      BY <2>1, <3>1 DEF RingInv, OwnBlocks
  <2> QED
    BY <1>8, <2>1, <2>2, <2>3 DEF BaseBlock
<1>13. clean => LiveBlocks' = {} /\ \A i \in Slots : ring'[i] = Null
  <2> SUFFICES ASSUME clean PROVE LiveBlocks' = {} /\ \A i \in Slots : ring'[i] = Null
    OBVIOUS
  <2>1. \A i \in Slots : i >= numbufs => ring[i] = Null
    BY DEF RingInv, Accounted
  <2>2. \A i \in Slots : ring'[i] = Null
    <3>1. \A i \in Slots : i \in Nat
      BY RingConfigAssumption DEF Slots
    <3> QED
      BY <1>2, <1>3, <1>11, <2>1, <3>1
  <2>3. \A b \in LiveBlocks : b \in mine \cup BaseBlock
    <3> SUFFICES ASSUME NEW b \in LiveBlocks, b # base PROVE b \in mine
      BY <1>2 DEF BaseBlock, LiveBlocks, Blocks, None
    <3>1. PICK i \in Slots : Mine(i) /\ b = ring[i].block
      BY DEF RingInv, Accounted
    <3>2. i < numbufs
      <4>1. i \in Nat
        BY RingConfigAssumption DEF Slots
      <4> QED
        BY <1>2, <2>1, <3>1, <4>1 DEF Mine
    <3> QED
      BY <1>3, <3>1, <3>2 DEF mine, Mine
  <2> QED
    BY <1>8, <2>2, <2>3 DEF LiveBlocks
<1> QED
  BY <1>1, <1>8, <1>10, <1>11, <1>12, <1>13

(* Disabling leaves nothing to be wrong about.                              *)
LEMMA DisableKeeps ==
  ASSUME RingInv, Disable, UNCHANGED <<mode, call, clean>>,
         pc' \in {"idle", "closed"} \/ (pc = "disable" /\ pc' = "number")
  PROVE  RingInv'
<1>1. /\ UNCHANGED <<mmap, owned, faults>> /\ MemoryType'
      /\ ring' \in [Slots -> Pointers] /\ attached' \in [Slots -> Pointers]
      /\ configured' = FALSE /\ base' = None /\ numbufs' = 0 /\ drvbufs' = 1 /\ promised' = 0
      /\ \A i \in Slots : ring'[i] = ring[i] \/ ring'[i] = Null
      /\ \A i \in Slots : Mine(i)' => Mine(i) /\ memory'[ring[i].block] = memory[ring[i].block]
      /\ clean => LiveBlocks' = {} /\ \A i \in Slots : ring'[i] = Null
  BY DisableFacts
<1>2. UNCHANGED <<mode, want, how, index, rc, clean>>
  BY DEF call
<1>3. TypeOK'
  <2>1. configured' \in BOOLEAN
    BY <1>1, Zenon
  <2>2. numbufs' \in 0 .. MaxBufs /\ drvbufs' \in 0 .. MaxBufs /\ promised' \in 0 .. MaxBufs
    BY <1>1, RingConfigAssumption
  <2>3. pc' \in {"idle", "disable", "number", "allocate", "attach", "closed"}
    OBVIOUS
  <2> QED
    BY <1>1, <1>2, <2>1, <2>2, <2>3 DEF RingInv, TypeOK, MemoryType
<1>4. Calling'
  BY <1>1, <1>2 DEF RingInv, Calling
<1>5. BaseOfMode' /\ AttachedSoFar' /\ Usable' /\ FreesWhatItOwns'
  BY <1>1 DEF RingInv, BaseOfMode, AttachedSoFar, Usable, FreesWhatItOwns
<1>6. OwnBlocks'
  <2> SUFFICES ASSUME NEW i \in Slots, Mine(i)'
               PROVE  /\ ring'[i].block \in Blocks /\ memory'[ring'[i].block] = "heap"
                      /\ ring'[i].block # base'
                      /\ \A j \in Slots : Mine(j)' /\ j # i => ring'[j].block # ring'[i].block
    BY DEF OwnBlocks
  <2>1. \A j \in Slots : Mine(j)' => Mine(j) /\ ring'[j] = ring[j]
    BY <1>1 DEF Mine
  <2>2. /\ ring[i].block \in Blocks /\ memory[ring[i].block] = "heap"
        /\ \A j \in Slots : Mine(j) /\ j # i => ring[j].block # ring[i].block
    BY <2>1 DEF RingInv, OwnBlocks
  <2>3. ring[i].block # None
    BY <2>2, RingConfigAssumption DEF Blocks, None
  <2> QED
    BY <1>1, <2>1, <2>2, <2>3
<1>7. Accounted'
  BY <1>1, <1>2 DEF Accounted, Mine
<1> QED
  BY <1>3, <1>4, <1>5, <1>6, <1>7 DEF RingInv

-----------------------------------------------------------------------------
(* The configuration, step by step.                                         *)

(* The mode in the driver and the beginning of a call.                      *)
LEMMA SetMmapKeeps ==
  ASSUME RingInv, ~ModeWhileMapped, NEW on \in Modes, SetMmap(on) PROVE RingInv'
<1>1. /\ UNCHANGED <<mmap, numbufs, configured, base, ring, owned, attached, drvbufs, memory, faults,
                     pc, want, how, index, rc, promised, clean>>
      /\ pc = "idle" /\ base = None /\ mode' = on
  BY Zenon DEF SetMmap, device, driver, blocks, call, history
<1>2. TypeOK'
  BY <1>1, RingConfigAssumption DEF RingInv, TypeOK
<1>3. Calling' /\ BaseOfMode' /\ OwnBlocks' /\ AttachedSoFar' /\ FreesWhatItOwns'
  BY <1>1 DEF RingInv, Calling, BaseOfMode, OwnBlocks, Mine, AttachedSoFar, FreesWhatItOwns
<1>4. Usable' /\ Accounted'
  BY <1>1 DEF RingInv, Usable, Mapped, Accounted, LiveBlocks, Mine
<1> QED
  BY <1>2, <1>3, <1>4 DEF RingInv

(* A configuration begins, or is refused.                                   *)
LEMMA CallConfigureKeeps ==
  ASSUME RingInv, NEW n \in 1 .. MaxBufs, NEW h \in Hows, CallConfigure(n, h) PROVE RingInv'
<1>1. /\ UNCHANGED <<mode, numbufs, configured, base, ring, owned, attached, drvbufs, memory, faults,
                     promised, clean>>
      /\ pc = "idle" /\ mmap' = mode
  BY Zenon DEF CallConfigure, driver, blocks, history
<1>2. \/ mode /\ h # "library" /\ pc' = "idle" /\ want' = 0 /\ how' = "library" /\ index' = 0 /\ rc' = -1
      \/ /\ mode => h = "library" 
         /\ pc' = IF configured THEN "disable" ELSE "number"
         /\ want' = n /\ how' = h /\ index' = 0 /\ rc' = 0
  BY DEF CallConfigure, Return
<1>3. TypeOK'
  <2>1. n \in 0 .. MaxBufs
    BY RingConfigAssumption
  <2>2. /\ want' \in 0 .. MaxBufs /\ how' \in Hows /\ index' \in 0 .. MaxBufs /\ rc' \in {0, -1}
        /\ pc' \in {"idle", "disable", "number", "allocate", "attach", "closed"}
    BY <1>2, <2>1, RingConfigAssumption DEF Hows
  <2> QED
    BY <1>1, <2>2 DEF RingInv, TypeOK
<1>4. Calling'
  BY <1>1, <1>2 DEF RingInv, Calling
<1>5. BaseOfMode' /\ OwnBlocks' /\ AttachedSoFar' /\ FreesWhatItOwns'
  BY <1>1, <1>2 DEF RingInv, BaseOfMode, OwnBlocks, Mine, AttachedSoFar, FreesWhatItOwns
<1>6. Usable' /\ Accounted'
  BY <1>1, <1>2 DEF RingInv, Usable, Mapped, Accounted, LiveBlocks, Mine
<1> QED
  BY <1>3, <1>4, <1>5, <1>6 DEF RingInv

(* The number of buffers is set in the library and the driver.              *)
LEMMA SetNumbufsKeeps == ASSUME RingInv, SetNumbufs PROVE RingInv'
<1>1. /\ UNCHANGED <<mode, mmap, configured, base, ring, owned, attached, memory, faults,
                     want, how, index, rc, promised, clean>>
      /\ pc = "number" /\ numbufs' = want /\ drvbufs' = want
      /\ pc' = IF how = "bufarray" \/ mmap THEN "attach" ELSE "allocate"
  BY Zenon DEF SetNumbufs, blocks, call, history
<1>2. want \in 1 .. MaxBufs /\ ~configured /\ index = 0 /\ mmap = mode /\ (mmap => how = "library")
  BY <1>1 DEF RingInv, Calling
<1>3. want \in 0 .. MaxBufs /\ MaxBufs \in Nat
  BY <1>2, RingConfigAssumption
<1>4. TypeOK'
  BY <1>1, <1>3 DEF RingInv, TypeOK
<1>5. Calling'
  BY <1>1, <1>2, <1>3 DEF Calling
<1>6. BaseOfMode' /\ OwnBlocks' /\ AttachedSoFar' /\ Usable' /\ FreesWhatItOwns'
  BY <1>1, <1>2 DEF RingInv, BaseOfMode, OwnBlocks, Mine, AttachedSoFar, Usable, FreesWhatItOwns
<1>7. Accounted'
  <2>1. clean => /\ \A b \in LiveBlocks : b = base \/ \E i \in Slots : Mine(i) /\ b = ring[i].block
                 /\ \A i \in Slots : ~Mine(i) /\ ring[i] = Null
                 /\ base = None
    BY <1>1, <1>2 DEF RingInv, Accounted
  <2> QED
    BY <1>1, <2>1 DEF Accounted, LiveBlocks, Mine
<1> QED
  BY <1>4, <1>5, <1>6, <1>7 DEF RingInv

(* The base buffer a failed call left is heap memory, and freed as such.    *)
LEMMA FreeBaseKeeps == ASSUME RingInv, FreeBase PROVE RingInv'
<1>1. /\ UNCHANGED <<mode, mmap, numbufs, configured, ring, owned, attached, drvbufs, pc,
                     want, how, index, rc, promised, clean>>
      /\ pc = "allocate" /\ base # None /\ base' = None /\ Release({base}, {})
  BY Zenon DEF FreeBase, driver, call, history
<1>2. ~configured /\ ~mmap
  BY <1>1 DEF RingInv, Calling
<1>3. base \in Blocks /\ memory[base] = "heap" /\ MemoryType
  BY <1>1, <1>2 DEF RingInv, TypeOK, BaseOfMode, MemoryType
<1>4. /\ MemoryType' /\ faults' = faults
      /\ \A b \in Blocks : IF b = base THEN memory'[b] \in {"gone", "unused"}
                           ELSE memory'[b] = memory[b]
  <2>1. \A b \in {base} : b \in Blocks /\ memory[b] = "heap"
    BY <1>3
  <2>2. \A b \in {} : b \in Blocks /\ memory[b] = "map"
    OBVIOUS
  <2>3. /\ MemoryType' /\ faults' = faults
        /\ \A b \in Blocks : IF b \in {base} \cup {} THEN memory'[b] \in {"gone", "unused"}
                             ELSE memory'[b] = memory[b]
    BY <1>1, <1>3, <2>1, <2>2, ReleaseFacts
  <2> QED
    BY <2>3
<1>5. TypeOK'
  BY <1>1, <1>4 DEF RingInv, TypeOK, MemoryType
<1>6. Calling' /\ BaseOfMode' /\ AttachedSoFar' /\ Usable' /\ FreesWhatItOwns'
  BY <1>1, <1>2, <1>4 DEF RingInv, Calling, BaseOfMode, AttachedSoFar, Usable, FreesWhatItOwns
<1>7. OwnBlocks'
  <2>1. ASSUME NEW i \in Slots, Mine(i)
        PROVE  /\ ring[i].block \in Blocks /\ memory'[ring[i].block] = "heap"
               /\ ring[i].block # None
               /\ \A j \in Slots : Mine(j) /\ j # i => ring[j].block # ring[i].block
    <3>1. /\ ring[i].block \in Blocks /\ memory[ring[i].block] = "heap" /\ ring[i].block # base
          /\ \A j \in Slots : Mine(j) /\ j # i => ring[j].block # ring[i].block
      BY <2>1 DEF RingInv, OwnBlocks
    <3>2. ring[i].block # None
      BY <3>1, RingConfigAssumption DEF Blocks, None
    <3> QED
      BY <1>4, <3>1, <3>2
  <2> QED
    BY <1>1, <2>1 DEF OwnBlocks, Mine
<1>8. Accounted'
  <2>1. ~clean
    BY <1>1, <1>2 DEF RingInv, Accounted
  <2> QED
    BY <1>1, <2>1 DEF Accounted
<1> QED
  BY <1>5, <1>6, <1>7, <1>8 DEF RingInv

(* A new base buffer is a block nothing else is in.                         *)
LEMMA AllocateKeeps == ASSUME RingInv, Allocate PROVE RingInv'
<1>1. /\ UNCHANGED <<mode, mmap, numbufs, configured, ring, owned, attached, drvbufs, faults,
                     want, how, index, rc, promised, clean>>
      /\ pc = "allocate" /\ base = None /\ pc' = "attach"
      /\ how = "library" => Unused # {} /\ base' = Fresh /\ memory' = [memory EXCEPT ![Fresh] = "heap"]
      /\ how # "library" => UNCHANGED <<base, memory>>
  BY Zenon DEF Allocate, driver, call, history
<1>2. ~configured /\ ~mmap /\ index = 0 /\ MemoryType
  BY <1>1 DEF RingInv, Calling, TypeOK, MemoryType
<1>3. how = "library" => Fresh \in Blocks /\ memory[Fresh] = "unused"
  BY <1>1, FreshUnused
<1> HIDE DEF Fresh, Unused
<1>4. /\ MemoryType' /\ base' \in {None} \cup Blocks
      /\ \A b \in Blocks : memory'[b] = IF b = base' THEN "heap" ELSE memory[b]
  <2>1. CASE how = "library"
    BY <1>1, <1>2, <1>3, <2>1 DEF MemoryType
  <2>2. CASE how # "library"
    <3>1. None \notin Blocks
      BY RingConfigAssumption DEF Blocks, None
    <3> QED
      BY <1>1, <1>2, <2>2, <3>1 DEF MemoryType
  <2> QED
    BY <2>1, <2>2
<1>5. TypeOK'
  BY <1>1, <1>4 DEF RingInv, TypeOK, MemoryType
<1>6. how = "library" => base' # None
  BY <1>1, <1>3, RingConfigAssumption DEF Blocks, None
<1>7. Calling' /\ AttachedSoFar' /\ Usable' /\ FreesWhatItOwns'
  <2>1. Calling'
    BY <1>1, <1>2, <1>6 DEF RingInv, Calling
  <2>2. \A i : i \notin 0 .. index - 1
    BY <1>2
  <2>3. AttachedSoFar'
    BY <1>1, <2>2 DEF AttachedSoFar
  <2> QED
    BY <1>1, <1>2, <2>1, <2>3 DEF RingInv, Usable, FreesWhatItOwns
<1>8. BaseOfMode'
  <2>1. mmap = mode
    BY <1>1 DEF RingInv, Calling
  <2> QED
    BY <1>1, <1>2, <1>4, <2>1 DEF BaseOfMode
<1>9. OwnBlocks'
  <2>1. ASSUME NEW i \in Slots, Mine(i)
        PROVE  /\ ring[i].block \in Blocks /\ memory'[ring[i].block] = "heap"
               /\ ring[i].block # base'
               /\ \A j \in Slots : Mine(j) /\ j # i => ring[j].block # ring[i].block
    <3>1. /\ ring[i].block \in Blocks /\ memory[ring[i].block] = "heap" /\ ring[i].block # base
          /\ \A j \in Slots : Mine(j) /\ j # i => ring[j].block # ring[i].block
      BY <2>1 DEF RingInv, OwnBlocks
    <3> QED
      BY <1>1, <1>3, <1>4, <3>1
  <2> QED
    BY <1>1, <2>1 DEF OwnBlocks, Mine
<1>10. Accounted'
  <2>1. clean => /\ \A b \in LiveBlocks : b = base \/ \E i \in Slots : Mine(i) /\ b = ring[i].block
                 /\ \A i \in Slots : ~Mine(i) /\ ring[i] = Null
    BY <1>1, <1>2 DEF RingInv, Accounted
  <2>2. clean => \A b \in LiveBlocks' : b = base'
    BY <1>1, <1>4, <2>1 DEF LiveBlocks, Blocks, None
  <2> QED
    BY <1>1, <1>2, <2>1, <2>2 DEF Accounted, Mine
<1> QED
  BY <1>5, <1>7, <1>8, <1>9, <1>10 DEF RingInv

(* A call that fails leaves its half-made configuration, which is then not  *)
(* a clean one any more.                                                    *)
LEMMA AllocateFailsKeeps == ASSUME RingInv, AllocateFails PROVE RingInv'
<1>1. /\ UNCHANGED <<mode, mmap, numbufs, configured, base, ring, owned, attached, drvbufs,
                     memory, faults, promised>>
      /\ pc = "allocate" /\ pc' = "idle" /\ rc' = -1 /\ want' = 0 /\ how' = "library" /\ index' = 0
      /\ clean' = FALSE
  BY Zenon DEF AllocateFails, Return, device, driver, blocks
<1>2. ~configured
  BY <1>1 DEF RingInv, Calling
<1>3. TypeOK'
  <2>1. clean' \in BOOLEAN
    BY <1>1, Zenon
  <2>2. want' \in 0 .. MaxBufs /\ index' \in 0 .. MaxBufs /\ how' \in Hows
    BY <1>1, RingConfigAssumption DEF Hows
  <2> QED
    BY <1>1, <2>1, <2>2 DEF RingInv, TypeOK
<1>4. Calling' /\ AttachedSoFar' /\ Usable' /\ FreesWhatItOwns' /\ BaseOfMode' /\ Accounted'
  BY <1>1, <1>2 DEF RingInv, Calling, AttachedSoFar, Usable, FreesWhatItOwns, BaseOfMode, Accounted
<1>5. OwnBlocks'
  BY <1>1 DEF RingInv, OwnBlocks, Mine
<1> QED
  BY <1>3, <1>4, <1>5 DEF RingInv

(* Giving slot index its buffer, and its ownership to the application.      *)
LEMMA SlotGiven ==
  ASSUME RingInv, pc = "attach", index < want,
         ring' = [ring EXCEPT ![index] = Buffer(index)], owned' = [owned EXCEPT ![index] = FALSE],
         UNCHANGED <<base, memory>>
  PROVE  /\ index \in Slots /\ Buffer(index) \in Pointers /\ At(Kernel, index) \in Pointers
         /\ ring' \in [Slots -> Pointers] /\ owned' \in [Slots -> BOOLEAN]
         /\ \A i \in Slots : Mine(i)' => Mine(i) /\ i # index
         /\ OwnBlocks'
<1>1. want \in 1 .. MaxBufs /\ numbufs = want
  BY DEF RingInv, Calling
<1>2. index \in Slots
  BY <1>1, RingConfigAssumption DEF RingInv, TypeOK, Slots
<1>3. Buffer(index) \in Pointers /\ At(Kernel, index) \in Pointers
  <2>1. base \in 0 .. MaxBlocks + 2 /\ User \in 0 .. MaxBlocks + 2 /\ Kernel \in 0 .. MaxBlocks + 2
        /\ None \in 0 .. MaxBlocks + 2 /\ 0 \in Slots
    BY RingConfigAssumption DEF RingInv, TypeOK, Blocks, User, Kernel, None, Slots
  <2> QED
    BY <1>2, <2>1 DEF Pointers, Buffer, Null, At
<1> HIDE DEF Buffer
<1>4. ring' \in [Slots -> Pointers] /\ \A i \in Slots : i # index => ring'[i] = ring[i]
  BY <1>2, <1>3 DEF RingInv, TypeOK
<1>5. owned \in [Slots -> BOOLEAN]
  BY DEF RingInv, TypeOK
<1>6. owned' \in [Slots -> BOOLEAN]
  BY <1>5, Zenon
<1>7. \A i \in Slots : owned'[i] = IF i = index THEN FALSE ELSE owned[i]
  BY <1>5, <1>2, Zenon
<1>8. \A i \in Slots : Mine(i)' => Mine(i) /\ i # index
  BY <1>4, <1>7 DEF Mine
<1>9. OwnBlocks'
  <2> SUFFICES ASSUME NEW i \in Slots, Mine(i)'
               PROVE  /\ ring'[i].block \in Blocks /\ memory'[ring'[i].block] = "heap"
                      /\ ring'[i].block # base'
                      /\ \A j \in Slots : Mine(j)' /\ j # i => ring'[j].block # ring'[i].block
    BY DEF OwnBlocks
  <2>1. \A j \in Slots : Mine(j)' => Mine(j) /\ ring'[j] = ring[j]
    BY <1>4, <1>8
  <2> QED
    BY <2>1 DEF RingInv, OwnBlocks
<1> QED
  BY <1>2, <1>3, <1>4, <1>6, <1>8, <1>9

(* A buffer is put into its slot and attached.                              *)
LEMMA AttachKeeps == ASSUME RingInv, Attach PROVE RingInv'
<1>1. /\ UNCHANGED <<mode, mmap, numbufs, configured, base, drvbufs, memory, faults,
                     pc, want, how, rc, promised, clean>>
      /\ pc = "attach" /\ index < want /\ index' = index + 1
      /\ ring' = [ring EXCEPT ![index] = Buffer(index)]
      /\ owned' = [owned EXCEPT ![index] = FALSE]
      /\ attached' = [attached EXCEPT ![index] = IF mmap THEN At(Kernel, index) ELSE Buffer(index)]
  BY Zenon DEF Attach, blocks, history
<1>2. /\ want \in 1 .. MaxBufs /\ numbufs = want /\ drvbufs = want /\ mmap = mode /\ ~configured
      /\ mmap => how = "library"
      /\ ~mmap /\ how = "library" => base # None
  BY <1>1 DEF RingInv, Calling
<1>3. /\ index \in Slots /\ Buffer(index) \in Pointers /\ At(Kernel, index) \in Pointers
      /\ ring' \in [Slots -> Pointers] /\ owned' \in [Slots -> BOOLEAN]
      /\ \A i \in Slots : Mine(i)' => Mine(i) /\ i # index
      /\ OwnBlocks'
  BY <1>1, SlotGiven
<1>4. \A i : Buffer(i)' = Buffer(i)
  BY <1>1 DEF Buffer
<1>5. /\ ring \in [Slots -> Pointers] /\ attached \in [Slots -> Pointers] /\ owned \in [Slots -> BOOLEAN]
      /\ index \in Nat /\ want \in 1 .. MaxBufs
  BY <1>2, RingConfigAssumption DEF RingInv, TypeOK
<1> HIDE DEF Buffer
<1>6. attached' \in [Slots -> Pointers]
  BY <1>1, <1>3, <1>5
<1>7. TypeOK'
  <2>1. index' \in 0 .. MaxBufs
    BY <1>1, <1>5, RingConfigAssumption
  <2> QED
    BY <1>1, <1>3, <1>6, <2>1 DEF RingInv, TypeOK
<1>8. Calling'
  BY <1>1, <1>2, <1>5 DEF Calling
<1>9. BaseOfMode' /\ Usable' /\ FreesWhatItOwns'
  BY <1>1, <1>2 DEF RingInv, BaseOfMode, Usable, FreesWhatItOwns
<1>10. AttachedSoFar'
  <2> SUFFICES ASSUME NEW i \in 0 .. index
               PROVE  /\ ~owned'[i]
                      /\ attached'[i] = IF mmap THEN At(Kernel, i) ELSE Buffer(i)
                      /\ ~mmap => ring'[i] = Buffer(i)
    BY <1>1, <1>4, <1>5 DEF AttachedSoFar
  <2>1. CASE i = index
    <3>1. owned'[i] = FALSE
      BY <1>1, <1>3, <1>5, <2>1, Zenon
    <3> QED
      BY <1>1, <1>3, <1>5, <2>1, <3>1
  <2>2. CASE i # index
    <3>1. i \in 0 .. index - 1 /\ i \in Slots
      BY <1>3, <1>5, <2>2, RingConfigAssumption DEF Slots
    <3>2. owned'[i] = owned[i]
      BY <1>1, <1>5, <3>1, <2>2, Zenon
    <3>3. ring'[i] = ring[i] /\ attached'[i] = attached[i]
      BY <1>1, <1>5, <3>1, <2>2
    <3> QED
      BY <1>1, <3>1, <3>2, <3>3 DEF RingInv, AttachedSoFar
  <2> QED
    BY <2>1, <2>2
<1>11. Accounted'
  <2>1. clean => /\ \A b \in LiveBlocks : b = base
                 /\ \A i \in Slots : i >= numbufs => ring[i] = Null
                 /\ \A i \in Slots : ~Mine(i)
                 /\ mmap => base = None
    BY <1>1, <1>2 DEF RingInv, Accounted
  <2>2. \A i \in Slots : i >= numbufs => ring'[i] = ring[i]
    BY <1>1, <1>2, <1>3, <1>5
  <2> QED
    BY <1>1, <1>2, <1>3, <2>1, <2>2 DEF Accounted, LiveBlocks
<1> QED
  BY <1>3, <1>7, <1>8, <1>9, <1>10, <1>11 DEF RingInv

(* A buffer the driver refuses ends the configuration.                      *)
LEMMA AttachFailsKeeps == ASSUME RingInv, AttachFails PROVE RingInv'
<1>1. /\ UNCHANGED <<mode, mmap, numbufs, configured, base, attached, drvbufs, memory, faults,
                     promised>>
      /\ pc = "attach" /\ index < want
      /\ pc' = "idle" /\ rc' = -1 /\ want' = 0 /\ how' = "library" /\ index' = 0
      /\ ring' = [ring EXCEPT ![index] = Buffer(index)]
      /\ owned' = [owned EXCEPT ![index] = FALSE]
      /\ clean' = FALSE
  BY Zenon DEF AttachFails, Return, driver, blocks
<1>2. ~configured
  BY <1>1 DEF RingInv, Calling
<1>3. ring' \in [Slots -> Pointers] /\ owned' \in [Slots -> BOOLEAN] /\ OwnBlocks'
  BY <1>1, SlotGiven
<1>4. TypeOK'
  <2>1. clean' \in BOOLEAN
    BY <1>1, Zenon
  <2>2. want' \in 0 .. MaxBufs /\ index' \in 0 .. MaxBufs /\ how' \in Hows
    BY <1>1, RingConfigAssumption DEF Hows
  <2> QED
    BY <1>1, <1>3, <2>1, <2>2 DEF RingInv, TypeOK
<1>5. Calling' /\ AttachedSoFar' /\ Usable' /\ FreesWhatItOwns' /\ BaseOfMode' /\ Accounted'
  BY <1>1, <1>2 DEF RingInv, Calling, AttachedSoFar, Usable, FreesWhatItOwns, BaseOfMode, Accounted
<1> QED
  BY <1>3, <1>4, <1>5 DEF RingInv

(* A mapping that fails ends the configuration.                             *)
LEMMA MapFailsKeeps == ASSUME RingInv, MapFails PROVE RingInv'
<1>1. /\ UNCHANGED <<mode, mmap, numbufs, configured, ring, owned, attached, drvbufs, memory, faults,
                     promised>>
      /\ pc = "attach" /\ base' = None
      /\ pc' = "idle" /\ rc' = -1 /\ want' = 0 /\ how' = "library" /\ index' = 0
      /\ clean' = FALSE
  BY Zenon DEF MapFails, Return, driver, blocks
<1>2. ~configured
  BY <1>1 DEF RingInv, Calling
<1>3. TypeOK'
  <2>1. clean' \in BOOLEAN
    BY <1>1, Zenon
  <2>2. want' \in 0 .. MaxBufs /\ index' \in 0 .. MaxBufs /\ how' \in Hows
    BY <1>1, RingConfigAssumption DEF Hows
  <2> QED
    BY <1>1, <2>1, <2>2 DEF RingInv, TypeOK
<1>4. Calling' /\ AttachedSoFar' /\ Usable' /\ FreesWhatItOwns' /\ BaseOfMode' /\ Accounted'
  BY <1>1, <1>2 DEF RingInv, Calling, AttachedSoFar, Usable, FreesWhatItOwns, BaseOfMode, Accounted
<1>5. None \notin Blocks
  BY RingConfigAssumption DEF None, Blocks
<1>6. OwnBlocks'
  BY <1>1, <1>5 DEF RingInv, OwnBlocks, Mine
<1> QED
  BY <1>3, <1>4, <1>6 DEF RingInv

(* Without the mapping, the ring is what the loop has attached.             *)
LEMMA FinishKeeps == ASSUME RingInv, Finish PROVE RingInv'
<1>1. /\ UNCHANGED <<mode, mmap, numbufs, base, ring, owned, attached, drvbufs, memory, faults, clean>>
      /\ pc = "attach" /\ index = want /\ ~mmap /\ configured' = TRUE /\ promised' = want
      /\ pc' = "idle" /\ rc' = 0 /\ want' = 0 /\ how' = "library" /\ index' = 0
  BY Zenon DEF Finish, Success, Return, driver, blocks
<1>2. /\ ~configured /\ numbufs = want /\ drvbufs = want
      /\ how = "library" => base # None
  BY <1>1 DEF RingInv, Calling
<1>3. want \in 0 .. MaxBufs
  BY DEF RingInv, TypeOK
<1>4. TypeOK'
  <2>1. configured' \in BOOLEAN
    BY <1>1, Zenon
  <2>2. want' \in 0 .. MaxBufs /\ index' \in 0 .. MaxBufs /\ how' \in Hows
    BY <1>1, RingConfigAssumption DEF Hows
  <2> QED
    BY <1>1, <1>3, <2>1, <2>2 DEF RingInv, TypeOK
<1>5. Calling' /\ AttachedSoFar' /\ FreesWhatItOwns' /\ BaseOfMode'
  BY <1>1 DEF RingInv, Calling, AttachedSoFar, FreesWhatItOwns, BaseOfMode
<1>6. OwnBlocks'
  BY <1>1 DEF RingInv, OwnBlocks, Mine
<1>7. Usable'
  <2> SUFFICES ASSUME NEW i \in 0 .. want - 1
               PROVE  /\ ring[i] = At(User, i) \/ (base # None /\ ring[i] = At(base, i))
                      /\ attached[i] = IF Mapped(ring[i])' THEN At(Kernel, i) ELSE ring[i]
    BY <1>1, <1>2, <1>3 DEF Usable
  <2>1. ring[i] = At(IF how = "library" THEN base ELSE User, i) /\ attached[i] = ring[i]
    BY <1>1 DEF RingInv, AttachedSoFar, Buffer
  <2>2. base # None => memory[base] = "heap"
    BY <1>1 DEF RingInv, BaseOfMode
  <2>3. User \notin Blocks
    BY RingConfigAssumption DEF User, Blocks
  <2>4. ~Mapped(ring[i])'
    BY <1>1, <1>2, <2>1, <2>2, <2>3 DEF Mapped, At
  <2> QED
    BY <1>2, <2>1, <2>4
<1>8. Accounted'
  <2>1. clean => /\ \A b \in LiveBlocks : b = base
                 /\ \A i \in Slots : i >= numbufs => ring[i] = Null
    BY <1>2 DEF RingInv, Accounted
  <2> QED
    BY <1>1, <2>1 DEF Accounted, LiveBlocks
<1> QED
  BY <1>4, <1>5, <1>6, <1>7, <1>8 DEF RingInv

(* The mapping replaces the pointers of the ring; what the driver has       *)
(* attached are the kernel's buffers behind it.                             *)
LEMMA MapKeeps == ASSUME RingInv, Map PROVE RingInv'
<1>1. /\ UNCHANGED <<mode, mmap, numbufs, owned, attached, drvbufs, faults, clean>>
      /\ pc = "attach" /\ index = want /\ mmap /\ Unused # {}
      /\ base' = Fresh /\ memory' = [memory EXCEPT ![Fresh] = "map"]
      /\ ring' = [i \in Slots |-> IF i < want THEN At(Fresh, i) ELSE ring[i]]
      /\ configured' = TRUE /\ promised' = want
      /\ pc' = "idle" /\ rc' = 0 /\ want' = 0 /\ how' = "library" /\ index' = 0
  BY Zenon DEF Map, Success, Return, driver
<1>2. ~configured /\ numbufs = want /\ drvbufs = want /\ mmap = mode
  BY <1>1 DEF RingInv, Calling
<1>3. /\ want \in 0 .. MaxBufs /\ MemoryType /\ ring \in [Slots -> Pointers]
      /\ \A i \in Slots : i \in Nat
  BY RingConfigAssumption DEF RingInv, TypeOK, MemoryType, Slots
<1>4. Fresh \in Blocks /\ memory[Fresh] = "unused"
  BY <1>1, FreshUnused
<1> HIDE DEF Fresh, Unused
<1>5. MemoryType' /\ \A b \in Blocks : memory'[b] = IF b = Fresh THEN "map" ELSE memory[b]
  BY <1>1, <1>3, <1>4 DEF MemoryType
<1>6. Fresh # None /\ \A i \in Slots : At(Fresh, i) \in Pointers
  BY <1>4, RingConfigAssumption DEF None, Blocks, Pointers, At
<1>7. ring' \in [Slots -> Pointers]
  BY <1>1, <1>3, <1>6
<1>8. TypeOK'
  <2>1. configured' \in BOOLEAN
    BY <1>1, Zenon
  <2>2. want' \in 0 .. MaxBufs /\ index' \in 0 .. MaxBufs /\ how' \in Hows
    BY <1>1, RingConfigAssumption DEF Hows
  <2> QED
    BY <1>1, <1>3, <1>4, <1>5, <1>7, <2>1, <2>2 DEF RingInv, TypeOK, MemoryType
<1>9. Calling' /\ AttachedSoFar' /\ FreesWhatItOwns' /\ BaseOfMode'
  BY <1>1, <1>2, <1>4, <1>5 DEF RingInv, Calling, AttachedSoFar, FreesWhatItOwns, BaseOfMode
<1>10. \A i \in Slots : Mine(i)' => Mine(i) /\ ring'[i] = ring[i]
  <2>1. \A i \in Slots : i < want => ~owned[i]
    BY <1>1, <1>3 DEF RingInv, AttachedSoFar
  <2> QED
    BY <1>1, <2>1 DEF Mine
<1>11. OwnBlocks'
  <2> SUFFICES ASSUME NEW i \in Slots, Mine(i)'
               PROVE  /\ ring'[i].block \in Blocks /\ memory'[ring'[i].block] = "heap"
                      /\ ring'[i].block # base'
                      /\ \A j \in Slots : Mine(j)' /\ j # i => ring'[j].block # ring'[i].block
    BY DEF OwnBlocks
  <2>1. /\ ring[i].block \in Blocks /\ memory[ring[i].block] = "heap"
        /\ \A j \in Slots : Mine(j) /\ j # i => ring[j].block # ring[i].block
    BY <1>10 DEF RingInv, OwnBlocks
  <2> QED
    BY <1>1, <1>4, <1>5, <1>10, <2>1
<1>12. Usable'
  <2> SUFFICES ASSUME NEW i \in 0 .. want - 1
               PROVE  /\ ring'[i] = At(Fresh, i)
                      /\ attached[i] = IF Mapped(ring[i])' THEN At(Kernel, i) ELSE ring'[i]
    BY <1>1, <1>2, <1>3, <1>6 DEF Usable
  <2>1. i \in Slots
    BY <1>3, RingConfigAssumption DEF Slots
  <2>2. ring'[i] = At(Fresh, i)
    BY <1>1, <1>3, <2>1
  <2>3. Mapped(ring[i])'
    BY <1>4, <1>5, <2>2 DEF Mapped, At
  <2>4. attached[i] = At(Kernel, i)
    BY <1>1 DEF RingInv, AttachedSoFar
  <2> QED
    BY <2>2, <2>3, <2>4
<1>13. Accounted'
  <2>1. clean => /\ \A b \in LiveBlocks : b = base
                 /\ \A i \in Slots : i >= numbufs => ring[i] = Null
                 /\ base = None
    BY <1>1, <1>2 DEF RingInv, Accounted
  <2>2. clean => \A b \in LiveBlocks' : b = base'
    BY <1>1, <1>5, <2>1 DEF LiveBlocks, Blocks, None
  <2>3. clean => \A i \in Slots : i >= numbufs => ring'[i] = Null
    BY <1>1, <1>2, <1>3, <2>1
  <2> QED
    BY <1>1, <2>2, <2>3 DEF Accounted
<1> QED
  BY <1>8, <1>9, <1>11, <1>12, <1>13 DEF RingInv

(* An added buffer goes into the first free slot, beyond the buffers the    *)
(* configuration promised; one of the library's is a block of its own.      *)
LEMMA AddKeeps == ASSUME RingInv, NEW mine \in BOOLEAN, Add(mine) PROVE RingInv'
<1>1. PICK i \in Slots :
      /\ UNCHANGED <<mode, mmap, configured, base, faults, pc, want, how, index, rc, promised>>
      /\ pc = "idle" /\ ~mmap /\ i = Min(FreeSlots) /\ FreeSlots # {} /\ numbufs < MaxBufs
      /\ numbufs' = numbufs + 1 /\ drvbufs' = numbufs + 1
      /\ owned' = [owned EXCEPT ![i] = mine]
      /\ clean' = (clean /\ configured)
      /\ \/ /\ mine /\ Unused # {}
            /\ ring' = [ring EXCEPT ![i] = At(Fresh, 0)]
            /\ memory' = [memory EXCEPT ![Fresh] = "heap"]
         \/ UNCHANGED <<ring, memory>>
         \/ ~mine /\ ring' = [ring EXCEPT ![i] = At(User, i)] /\ UNCHANGED memory
      /\ \/ ring'[i] # Null /\ attached' = [attached EXCEPT ![i] = ring'[i]]
         \/ UNCHANGED attached
  <2>1. FreeSlots # {}
    BY Zenon DEF Add
  <2>2. Min(FreeSlots) \in Slots
    BY <2>1, FirstFreeSlot DEF FreeSlots
  <2> QED
    BY <2>2, Zenon DEF Add, call
<1>2. /\ i \in Slots /\ ring[i] = Null /\ \A j \in Slots : ring[j] = Null => i <= j
  BY <1>1, FirstFreeSlot DEF FreeSlots
<1>3. /\ ring \in [Slots -> Pointers] /\ attached \in [Slots -> Pointers] /\ MemoryType
      /\ owned \in [Slots -> BOOLEAN] /\ numbufs \in 0 .. MaxBufs /\ promised \in 0 .. MaxBufs
  BY DEF RingInv, TypeOK, MemoryType
<1>4. Unused # {} => Fresh \in Blocks /\ memory[Fresh] = "unused"
  BY FreshUnused
<1> HIDE DEF Fresh, Unused
<1>5. /\ None \notin Blocks /\ User \notin Blocks /\ None # User /\ 0 \in Slots /\ None \in 0 .. MaxBlocks + 2
      /\ \A b \in Blocks : b # None /\ b \in 0 .. MaxBlocks + 2
      /\ User \in 0 .. MaxBlocks + 2 /\ \A j \in Slots : j \in 0 .. MaxBufs - 1
  BY RingConfigAssumption DEF None, User, Blocks, Slots
<1>6. /\ \A j \in Slots : j # i => ring'[j] = ring[j]
      /\ \/ /\ mine /\ ring'[i] = At(Fresh, 0) /\ Fresh \in Blocks /\ memory[Fresh] = "unused"
            /\ memory' = [memory EXCEPT ![Fresh] = "heap"]
         \/ ring'[i] = Null /\ UNCHANGED memory
         \/ ~mine /\ ring'[i] = At(User, i) /\ UNCHANGED memory
  BY <1>1, <1>2, <1>3, <1>4
<1>7. /\ MemoryType'
      /\ \A b \in Blocks : memory'[b] = memory[b] \/ (mine /\ ring'[i] = At(b, 0) /\ memory'[b] = "heap")
      /\ \A b \in Blocks : memory[b] # "unused" => memory'[b] = memory[b]
  BY <1>3, <1>6 DEF MemoryType
<1>8. ring'[i] \in Pointers
  BY <1>2, <1>5, <1>6 DEF Pointers, At, Null, None
<1>9. ring' \in [Slots -> Pointers] /\ attached' \in [Slots -> Pointers]
      /\ \A j \in Slots : j # i => attached'[j] = attached[j]
  <2>1. attached' \in [Slots -> Pointers] /\ \A j \in Slots : j # i => attached'[j] = attached[j]
    BY <1>1, <1>3, <1>8
  <2>2. ring' \in [Slots -> Pointers]
    BY <1>1, <1>3, <1>8
  <2> QED
    BY <2>1, <2>2
<1>10. owned' \in [Slots -> BOOLEAN] /\ \A j \in Slots : owned'[j] = IF j = i THEN mine ELSE owned[j]
  BY <1>1, <1>2, <1>3, Zenon
<1>11. ~(configured /\ i < promised)
  <2> SUFFICES ASSUME configured, i < promised PROVE FALSE
    OBVIOUS
  <2>1. i \in 0 .. promised - 1
    BY <1>2, <1>3, <1>5
  <2>2. ring[i] = At(User, i) \/ (base # None /\ ring[i] = At(base, i))
    BY <2>1 DEF RingInv, Usable
  <2> QED
    BY <1>2, <1>5, <2>2 DEF At, Null
<1>12. TypeOK'
  <2>1. clean' \in BOOLEAN
    BY <1>1, Zenon DEF RingInv, TypeOK
  <2>2. numbufs' \in 0 .. MaxBufs /\ drvbufs' \in 0 .. MaxBufs
    BY <1>1, <1>3, RingConfigAssumption
  <2>3. memory' \in [Blocks -> {"unused", "heap", "map", "gone"}]
    BY <1>7 DEF MemoryType
  <2> QED
    BY <1>1, <1>9, <1>10, <2>1, <2>2, <2>3 DEF RingInv, TypeOK
<1>13. Calling' /\ AttachedSoFar' /\ FreesWhatItOwns'
  BY <1>1 DEF RingInv, Calling, AttachedSoFar, FreesWhatItOwns
<1>14. base # None => base \in Blocks /\ memory[base] = "heap" /\ memory'[base] = "heap"
  BY <1>1, <1>7 DEF RingInv, TypeOK, BaseOfMode
<1>15. BaseOfMode'
  BY <1>1, <1>14 DEF RingInv, BaseOfMode
<1>16. \A j \in Slots : j # i => (Mine(j)' <=> Mine(j)) /\ ring'[j] = ring[j]
  BY <1>6, <1>10 DEF Mine
<1>17. Mine(i)' => /\ ring'[i] = At(Fresh, 0) /\ Fresh \in Blocks
                   /\ memory[Fresh] = "unused" /\ memory'[Fresh] = "heap"
  BY <1>2, <1>3, <1>6, <1>10 DEF Mine, MemoryType
<1>18. OwnBlocks'
  <2>1. ASSUME NEW j \in Slots, Mine(j)
        PROVE  /\ ring[j].block \in Blocks /\ memory[ring[j].block] = "heap"
               /\ memory'[ring[j].block] = "heap" /\ ring[j].block # base
               /\ \A k \in Slots : Mine(k) /\ k # j => ring[k].block # ring[j].block
    BY <1>7, <2>1 DEF RingInv, OwnBlocks
  <2> SUFFICES ASSUME NEW j \in Slots, Mine(j)'
               PROVE  /\ ring'[j].block \in Blocks /\ memory'[ring'[j].block] = "heap"
                      /\ ring'[j].block # base'
                      /\ \A k \in Slots : Mine(k)' /\ k # j => ring'[k].block # ring'[j].block
    BY DEF OwnBlocks
  <2>2. CASE j # i
    <3>1. Mine(j) /\ ring'[j] = ring[j]
      BY <1>16, <2>2
    <3>2. \A k \in Slots : Mine(k)' /\ k # j => ring'[k].block # ring'[j].block
      <4> SUFFICES ASSUME NEW k \in Slots, Mine(k)', k # j PROVE ring'[k].block # ring'[j].block
        OBVIOUS
      <4>1. CASE k = i
        BY <1>17, <2>1, <3>1, <4>1 DEF At
      <4>2. CASE k # i
        BY <1>16, <2>1, <3>1, <4>2
      <4> QED
        BY <4>1, <4>2
    <3> QED
      BY <1>1, <2>1, <3>1, <3>2
  <2>3. CASE j = i
    <3>1. ring'[j].block = Fresh /\ Fresh # base
      <4>1. ring'[j] = At(Fresh, 0) /\ memory[Fresh] = "unused"
        BY <1>17, <2>3
      <4>2. Fresh # base
        BY <1>5, <1>14, <1>17, <2>3
      <4> QED
        BY <4>1, <4>2, PointerParts
    <3>2. \A k \in Slots : Mine(k)' /\ k # j => ring'[k].block # Fresh
      BY <1>16, <1>17, <2>1, <2>3
    <3> QED
      BY <1>1, <1>17, <2>3, <3>1, <3>2
  <2> QED
    BY <2>2, <2>3
<1>19. Usable'
  <2> SUFFICES ASSUME configured, NEW j \in 0 .. promised - 1
               PROVE  /\ promised <= numbufs' /\ drvbufs' = numbufs'
                      /\ ring'[j] = At(User, j) \/ (base # None /\ ring'[j] = At(base, j))
                      /\ attached'[j] = IF Mapped(ring[j])' THEN At(Kernel, j) ELSE ring'[j]
    <3>1. configured => promised <= numbufs' /\ drvbufs' = numbufs'
      BY <1>1, <1>3 DEF RingInv, Usable
    <3>2. ~configured => promised = 0
      BY DEF RingInv, Usable
    <3> QED
      BY <1>1, <3>1, <3>2 DEF Usable
  <2>1. /\ promised <= numbufs
        /\ ring[j] = At(User, j) \/ (base # None /\ ring[j] = At(base, j))
        /\ attached[j] = IF Mapped(ring[j]) THEN At(Kernel, j) ELSE ring[j]
    BY DEF RingInv, Usable
  <2>2. j \in Slots /\ j # i
    BY <1>3, <1>11, <2>1, RingConfigAssumption DEF Slots
  <2>3. ring'[j] = ring[j] /\ attached'[j] = attached[j]
    BY <1>6, <1>9, <2>2
  <2>4. ~Mapped(ring[j]) /\ ~Mapped(ring[j])'
    BY <1>5, <1>14, <2>1, <2>3 DEF Mapped, At
  <2> QED
    BY <1>1, <1>3, <2>1, <2>3, <2>4
<1>20. Accounted'
  <2> SUFFICES ASSUME clean, configured
               PROVE  /\ \A b \in LiveBlocks' : b = base \/ \E j \in Slots : Mine(j)' /\ b = ring'[j].block
                      /\ \A j \in Slots : j >= numbufs' => ring'[j] = Null
    BY <1>1 DEF Accounted
  <2>1. /\ \A b \in LiveBlocks : b = base \/ \E j \in Slots : Mine(j) /\ b = ring[j].block
        /\ \A j \in Slots : j >= numbufs => ring[j] = Null
    BY DEF RingInv, Accounted
  <2>2. i <= numbufs
    <3>1. numbufs \in Slots
      BY <1>1, <1>3, RingConfigAssumption DEF Slots
    <3>2. ring[numbufs] = Null
      BY <1>3, <2>1, <3>1
    <3> QED
      BY <1>2, <3>1, <3>2
  <2>3. \A j \in Slots : j >= numbufs' => ring'[j] = Null
    BY <1>1, <1>2, <1>3, <1>5, <1>6, <2>1, <2>2
  <2>4. ASSUME NEW b \in LiveBlocks', b # base
        PROVE  \E j \in Slots : Mine(j)' /\ b = ring'[j].block
    <3>1. b \in Blocks /\ memory'[b] \in {"heap", "map"}
      BY DEF LiveBlocks, Blocks
    <3>2. CASE memory'[b] = memory[b]
      <4>1. b \in LiveBlocks
        BY <3>1, <3>2 DEF LiveBlocks
      <4>2. PICK j \in Slots : Mine(j) /\ b = ring[j].block
        BY <2>1, <2>4, <4>1
      <4>3. j # i
        BY <1>2, <4>2 DEF Mine
      <4> QED
        BY <1>16, <4>2, <4>3
    <3>3. CASE mine /\ ring'[i] = At(b, 0)
      <4>1. ring'[i].block = b
        BY <3>3, PointerParts
      <4>2. ring'[i] # Null
        BY <1>5, <3>1, <4>1, PointerParts
      <4>3. owned'[i]
        BY <1>2, <1>10, <3>3, Zenon
      <4> QED
        BY <1>2, <4>1, <4>2, <4>3 DEF Mine
    <3> QED
      BY <1>7, <3>1, <3>2, <3>3
  <2> QED
    BY <2>3, <2>4
<1> QED
  BY <1>12, <1>13, <1>15, <1>18, <1>19, <1>20 DEF RingInv

(* Closing an unconfigured device changes what the driver has attached.     *)
LEMMA CloseOtherKeeps == ASSUME RingInv, CloseOther PROVE RingInv'
<1>1. /\ UNCHANGED <<mode, mmap, numbufs, configured, base, ring, owned, memory, faults,
                     want, how, index, rc, promised, clean>>
      /\ pc = "idle" /\ ~configured /\ pc' = "closed"
      /\ attached' = [i \in Slots |-> Null] /\ drvbufs' = 1
  BY Zenon DEF CloseOther, device, blocks, call, history
<1>2. Null \in Pointers
  BY RingConfigAssumption DEF Null, None, Pointers, Slots
<1>3. TypeOK'
  <2>1. drvbufs' \in 0 .. MaxBufs /\ attached' \in [Slots -> Pointers]
    BY <1>1, <1>2, RingConfigAssumption
  <2> QED
    BY <1>1, <2>1 DEF RingInv, TypeOK
<1>4. Calling' /\ BaseOfMode' /\ OwnBlocks' /\ AttachedSoFar' /\ Usable' /\ FreesWhatItOwns'
  BY <1>1 DEF RingInv, Calling, BaseOfMode, OwnBlocks, Mine, AttachedSoFar, Usable, FreesWhatItOwns
<1>5. Accounted'
  BY <1>1 DEF RingInv, Accounted, LiveBlocks, Mine
<1> QED
  BY <1>3, <1>4, <1>5 DEF RingInv

-----------------------------------------------------------------------------
(* Before the first call nothing is allocated, attached or promised.        *)
LEMMA RingInvInit == Init => RingInv
<1> SUFFICES ASSUME Init PROVE RingInv
  OBVIOUS
<1>1. Null \in Pointers /\ MaxBufs \in Nat \ {0}
  BY RingConfigAssumption DEF Null, None, Pointers, Slots
<1>2. TypeOK
  <2>1. mode \in BOOLEAN /\ mmap \in BOOLEAN /\ configured \in BOOLEAN /\ clean \in BOOLEAN
    BY Zenon DEF Init
  <2>2. owned \in [Slots -> BOOLEAN]
    BY Zenon DEF Init
  <2>3. /\ numbufs \in 0 .. MaxBufs /\ drvbufs \in 0 .. MaxBufs /\ base \in {None} \cup Blocks
        /\ want \in 0 .. MaxBufs /\ index \in 0 .. MaxBufs /\ promised \in 0 .. MaxBufs
        /\ how \in Hows /\ rc \in {0, -1} /\ faults \subseteq {"free", "munmap"}
        /\ pc \in {"idle", "disable", "number", "allocate", "attach", "closed"}
    BY <1>1 DEF Init, Hows
  <2>4. /\ ring \in [Slots -> Pointers] /\ attached \in [Slots -> Pointers]
        /\ memory \in [Blocks -> {"unused", "heap", "map", "gone"}]
    BY <1>1 DEF Init
  <2> QED
    BY <2>1, <2>2, <2>3, <2>4 DEF TypeOK
<1>3. \A i \in Slots : ring[i] = Null /\ ~Mine(i)
  BY DEF Init, Mine
<1>4. Calling /\ BaseOfMode /\ OwnBlocks /\ AttachedSoFar /\ Usable /\ FreesWhatItOwns
  BY <1>3 DEF Init, Calling, BaseOfMode, OwnBlocks, AttachedSoFar, Usable, FreesWhatItOwns
<1>5. Accounted
  BY <1>3 DEF Init, Accounted, LiveBlocks
<1> QED
  BY <1>2, <1>4, <1>5 DEF RingInv

(* Any step of the calls, whatever number of buffers they ask for.          *)
RingStep ==
  \/ \E on \in Modes : SetMmap(on)
  \/ \E n \in 1 .. MaxBufs, h \in Hows : CallConfigure(n, h)
  \/ ConfigureStep
  \/ \E mine \in BOOLEAN : Add(mine)
  \/ CallDisable \/ CloseConfigured \/ CloseOther

(* Every step of every call keeps the invariant, one lemma above each.      *)
LEMMA RingInvStep == ASSUME RingInv, ~ModeWhileMapped, [RingStep]_vars PROVE RingInv'
<1>1. ASSUME NEW on \in Modes, SetMmap(on) PROVE RingInv'
  BY <1>1, SetMmapKeeps
<1>2. ASSUME NEW n \in 1 .. MaxBufs, NEW h \in Hows, CallConfigure(n, h) PROVE RingInv'
  BY <1>2, CallConfigureKeeps
<1>3. CASE DisableOld
  <2>1. Disable /\ UNCHANGED <<mode, call, clean>> /\ pc = "disable" /\ pc' = "number"
    BY <1>3 DEF DisableOld
  <2> QED
    BY <2>1, DisableKeeps
<1>4. CASE SetNumbufs
  BY <1>4, SetNumbufsKeeps
<1>5. CASE FreeBase
  BY <1>5, FreeBaseKeeps
<1>6. CASE Allocate \/ AllocateFails
  BY <1>6, AllocateKeeps, AllocateFailsKeeps
<1>7. CASE Attach \/ AttachFails
  BY <1>7, AttachKeeps, AttachFailsKeeps
<1>8. CASE Finish \/ Map \/ MapFails
  BY <1>8, FinishKeeps, MapKeeps, MapFailsKeeps
<1>9. ASSUME NEW mine \in BOOLEAN, Add(mine) PROVE RingInv'
  BY <1>9, AddKeeps
<1>10. CASE CallDisable
  <2>1. Disable /\ UNCHANGED <<mode, call, clean>> /\ pc' = "idle"
    BY <1>10 DEF CallDisable
  <2> QED
    BY <2>1, DisableKeeps
<1>11. CASE CloseConfigured
  <2>1. Disable /\ UNCHANGED <<mode, call, clean>> /\ pc' = "closed"
    BY <1>11 DEF CloseConfigured
  <2> QED
    BY <2>1, DisableKeeps
<1>12. CASE CloseOther
  BY <1>12, CloseOtherKeeps
<1>13. CASE UNCHANGED vars
  <2>1. UNCHANGED <<mode, mmap, numbufs, configured, base, ring, owned, attached, drvbufs, memory,
                    faults, pc, want, how, index, rc, promised, clean>>
    BY <1>13, Zenon DEF vars, device, driver, blocks, call, history
  <2>2. TypeOK' /\ Calling' /\ BaseOfMode' /\ FreesWhatItOwns'
    BY <2>1 DEF RingInv, TypeOK, Calling, BaseOfMode, FreesWhatItOwns
  <2>3. AttachedSoFar'
    BY <2>1 DEF RingInv, AttachedSoFar, Buffer
  <2>4. OwnBlocks' /\ Usable' /\ Accounted'
    BY <2>1 DEF RingInv, OwnBlocks, Mine, Usable, Mapped, Accounted, LiveBlocks
  <2> QED
    BY <2>2, <2>3, <2>4 DEF RingInv
<1> QED
  BY <1>1, <1>2, <1>3, <1>4, <1>5, <1>6, <1>7, <1>8, <1>9, <1>10, <1>11, <1>12, <1>13
  DEF RingStep, ConfigureStep

(* The inductive invariant, of an application that changes the mode only    *)
(* while there is no base buffer.                                           *)
LEMMA RingInvAlways == ASSUME ~ModeWhileMapped PROVE Spec => []RingInv
<1>1. Next => RingStep
  <2>1. \A n \in Numbers : n \in 1 .. MaxBufs
    BY RingConfigAssumption
  <2> QED
    BY <2>1, Zenon DEF Next, RingStep
<1>2. RingInv /\ [Next]_vars => RingInv'
  BY <1>1, RingInvStep
<1> QED
  BY <1>2, RingInvInit, PTL DEF Spec

(* Every variable of the configuration keeps its type: no slot, block or    *)
(* buffer count ever leaves its range, whatever calls fail.                 *)
THEOREM RingTypeCorrect == ASSUME ~ModeWhileMapped PROVE Spec => []TypeOK
<1>1. RingInv => TypeOK
  BY DEF RingInv
<1> QED
  BY <1>1, RingInvAlways, PTL

(* The library frees every block once and the right way, whatever failed    *)
(* before: a slot edt_add_ring_buffer marked as the library's holds a heap  *)
(* block of its own, and the base buffer was made the way the mode says.    *)
THEOREM FreesOnce == ASSUME ~ModeWhileMapped PROVE Spec => []FreesWhatItOwns
<1>1. RingInv => FreesWhatItOwns
  BY DEF RingInv
<1> QED
  BY <1>1, RingInvAlways, PTL

(* The buffers a configuration promised are in memory that is there.        *)
LEMMA PromisedLive ==
  ASSUME RingInv, configured, NEW i \in Nat, i < promised PROVE ring[i] # Null /\ Live(ring[i])
<1>1. i \in 0 .. promised - 1
  BY RingConfigAssumption DEF RingInv, TypeOK
<1>2. ring[i] = At(User, i) \/ (base # None /\ ring[i] = At(base, i))
  BY <1>1 DEF RingInv, Usable
<1>3. base # None => base \in Blocks /\ memory[base] \in {"heap", "map"}
  BY DEF RingInv, TypeOK, BaseOfMode
<1>4. User # None
  BY RingConfigAssumption DEF User, None
<1> QED
  BY <1>2, <1>3, <1>4, PointerParts DEF Live

(* A ring that was configured stays usable: every buffer promised has its   *)
(* own live memory, the same the driver transfers into, through every       *)
(* buffer added and every later call that fails.                            *)
THEOREM ConfiguredMeansUsable == ASSUME ~ModeWhileMapped PROVE Spec => []ConfiguredRingUsable
<1>1. RingInv => ConfiguredRingUsable
  <2> SUFFICES ASSUME RingInv, configured
               PROVE  /\ promised <= numbufs /\ drvbufs = numbufs
                      /\ \A i \in 0 .. promised - 1 :
                           /\ ring[i] # Null /\ Live(ring[i])
                           /\ attached[i] = IF Mapped(ring[i]) THEN At(Kernel, i) ELSE ring[i]
                           /\ \A j \in 0 .. i - 1 : ring[j] # ring[i]
    BY DEF ConfiguredRingUsable
  <2>1. /\ promised <= numbufs /\ drvbufs = numbufs /\ promised \in 0 .. MaxBufs
        /\ \A i \in 0 .. promised - 1 :
             /\ ring[i] = At(User, i) \/ (base # None /\ ring[i] = At(base, i))
             /\ attached[i] = IF Mapped(ring[i]) THEN At(Kernel, i) ELSE ring[i]
    BY DEF RingInv, Usable, TypeOK
  <2>2. \A i \in 0 .. promised - 1 : ring[i].at = i
    BY <2>1, PointerParts
  <2>3. \A i \in 0 .. promised - 1 : \A j \in 0 .. i - 1 : ring[j] # ring[i]
    <3> SUFFICES ASSUME NEW i \in 0 .. promised - 1, NEW j \in 0 .. i - 1 PROVE ring[j] # ring[i]
      OBVIOUS
    <3>1. j \in 0 .. promised - 1 /\ j # i
      BY <2>1
    <3> QED
      BY <2>2, <3>1
  <2>4. \A i \in 0 .. promised - 1 : ring[i] # Null /\ Live(ring[i])
    BY <2>1, PromisedLive
  <2> QED
    BY <2>1, <2>3, <2>4
<1> QED
  BY <1>1, RingInvAlways, PTL

(* edt_close leaves nothing allocated, if every configuration succeeded and *)
(* buffers were added to a configured ring only.                            *)
THEOREM CloseReleasesAll == ASSUME ~ModeWhileMapped PROVE Spec => []CloseReleases
<1>1. RingInv => CloseReleases
  <2> SUFFICES ASSUME RingInv, pc = "closed", clean PROVE LiveBlocks = {}
    BY DEF CloseReleases
  <2>1. ~configured
    BY DEF RingInv, Calling
  <2>2. base = None /\ \A i \in Slots : ~Mine(i)
    BY <2>1 DEF RingInv, Accounted
  <2>3. \A b \in LiveBlocks : b = base
    BY <2>2 DEF RingInv, Accounted
  <2>4. None \notin Blocks
    BY RingConfigAssumption DEF None, Blocks
  <2> QED
    BY <2>2, <2>3, <2>4 DEF LiveBlocks
<1> QED
  BY <1>1, RingInvAlways, PTL

-----------------------------------------------------------------------------
(* Transfers: the ring of RingConfig with sizes, turns and single shots.    *)

(* Types of what the proofs compute with.                                   *)
MoreType ==
  /\ header \in Nat /\ size \in Nat /\ full \in Nat
  /\ allocated \in [Slots -> Nat] /\ drvsize \in [Slots -> Nat] /\ room \in [Slots -> Int]
  /\ headed \subseteq Slots
  /\ nextwbuf \in Nat /\ handed \in Nat \cup {Lost}
  /\ moved \in Nat /\ timeouts \in Nat

(* No buffer points to a block that is not there and could be allocated     *)
(* again; the driver's never to a mapping, and of the slots still to be     *)
(* attached, none to the new base buffer.                                   *)
HeldBlocks ==
  /\ \A i \in Slots : ring[i].block \in Blocks => memory[ring[i].block] # "unused"
  /\ \A i \in Slots :
       attached[i].block \in Blocks => memory[attached[i].block] \in {"heap", "gone"}
  /\ pc = "attach" /\ ~mmap /\ how = "library" =>
       \A i \in Slots : i >= index => attached[i].block # base

(* The sizes of the configuration in progress.                              *)
Configuring == pc \in {"disable", "number", "allocate", "attach"}
SizesKnown ==
  /\ Configuring => size > 0
  /\ pc \in {"allocate", "attach"} /\ how # "bufarray" => full >= header + size

(* A buffer of the library's is as large as it is said to be, unless there  *)
(* is a header before it in its slot.                                       *)
Ample(i) == allocated[i] <= room[i] \/ i \in headed

(* The loop has given the buffers below its index the size asked for.       *)
SizedSoFar ==
  pc = "attach" /\ how # "bufarray" =>
    \A i \in 0 .. index - 1 : drvsize[i] = size /\ size <= room[i] /\ Ample(i)

(* The driver's buffer i is the library's.                                  *)
Agree(i) == attached[i] = IF Mapped(ring[i]) THEN At(Kernel, i) ELSE ring[i]
AllFit ==
  \A i \in Slots : ring[i].block \in Blocks =>
    Ample(i) /\ (Agree(i) => drvsize[i] <= room[i] \/ i \in headed)

(* Output goes on from the buffer that the count of buffers handed out says.*)
TurnKept ==
  /\ configured => promised > 0
  /\ configured \/ pc \in {"allocate", "attach"} =>
       nextwbuf < numbufs /\ (handed # Lost => nextwbuf = handed % drvbufs)

(* A single transfer has a ring of one buffer, as large as it asked for.    *)
Ready ==
  /\ pc = "idle" /\ configured /\ promised = 1
  /\ drvsize[0] = size /\ size <= room[0]
ShotProceeds ==
  /\ shot = "configure" =>
       \/ Configuring /\ want = 1 /\ how = "library"
       \/ pc = "idle" /\ rc = -1
       \/ Ready
  /\ shot \in {"wait", "woken", "copy"} => Ready

(* Unless something was in the way, no timeout is older than this transfer, *)
(* and the count is what it moved.                                          *)
CountTrue ==
  ~late =>
    /\ shot \in {"configure", "wait"} => timeouts = 0
    /\ shot = "woken" => IF timeouts > 0 THEN timecount = moved ELSE moved = size
    /\ shot = "copy" => result = moved

TransfersInv ==
  /\ RingInv
  /\ MoreType /\ HeldBlocks /\ SizesKnown /\ SizedSoFar /\ AllFit /\ TurnKept
  /\ ShotProceeds /\ CountTrue

-----------------------------------------------------------------------------
(* Blocks that something points to.                                         *)

(* What a call of Release leaves: a block still pointed to is not there to  *)
(* be allocated again, and no block becomes a mapping.                      *)
LEMMA ReleasedHeld ==
  ASSUME NEW heap, NEW map, Release(heap, map)
  PROVE  \A b \in Blocks :
           /\ memory'[b] = memory[b] \/ memory'[b] \in {"gone", "unused"}
           /\ b \in Held' /\ memory'[b] = "unused" => memory[b] = "unused"
<1>1. memory' = [b \in Blocks |-> IF b \notin heap \cup map THEN memory[b]
                                  ELSE IF b \in Held' THEN "gone" ELSE "unused"]
  BY Zenon DEF Release
<1> HIDE DEF Held
<1> QED
  BY <1>1

(* Everything a slot or the driver points to is held.                       *)
LEMMA PointedHeld == \A i \in Slots : ring[i].block \in Held /\ attached[i].block \in Held
BY DEF Held

(* A step that releases blocks and forgets pointers keeps HeldBlocks.       *)
LEMMA HeldAfterRelease ==
  ASSUME HeldBlocks, NEW heap, NEW map, Release(heap, map),
         \A i \in Slots : /\ ring'[i] = ring[i] \/ ring'[i] = Null
                          /\ attached'[i] = attached[i] \/ attached'[i] = Null,
         pc' # "attach"
  PROVE  HeldBlocks'
<1>1. None \notin Blocks
  BY RingConfigAssumption DEF None, Blocks
<1>2. \A b \in Blocks : /\ memory'[b] = memory[b] \/ memory'[b] \in {"gone", "unused"}
                        /\ b \in Held' /\ memory'[b] = "unused" => memory[b] = "unused"
  BY ReleasedHeld
<1>3. \A i \in Slots : ring'[i].block \in Held' /\ attached'[i].block \in Held'
  BY DEF Held
<1> HIDE DEF Held
<1>4. ASSUME NEW i \in Slots, ring'[i].block \in Blocks
      PROVE  memory'[ring'[i].block] # "unused"
  <2>1. ring'[i] = ring[i]
    BY <1>1, <1>4, PointerParts
  <2>2. memory[ring[i].block] # "unused"
    BY <1>4, <2>1 DEF HeldBlocks
  <2> QED
    BY <1>2, <1>3, <1>4, <2>1, <2>2
<1>5. ASSUME NEW i \in Slots, attached'[i].block \in Blocks
      PROVE  memory'[attached'[i].block] \in {"heap", "gone"}
  <2>1. attached'[i] = attached[i]
    BY <1>1, <1>5, PointerParts
  <2>2. memory[attached[i].block] \in {"heap", "gone"}
    BY <1>5, <2>1 DEF HeldBlocks
  <2>3. attached[i].block \in Held'
    BY <1>3, <2>1
  <2> QED
    BY <1>2, <1>5, <2>1, <2>2, <2>3
<1> QED
  BY <1>4, <1>5 DEF HeldBlocks

(* Disabling forgets the buffers in use and releases their blocks.          *)
LEMMA DisableForgets ==
  ASSUME RingInv, Disable
  PROVE  /\ \A i \in Slots : /\ ring'[i] = ring[i] \/ ring'[i] = Null
                             /\ attached'[i] = attached[i] \/ attached'[i] = Null
         /\ \E heap, map : Release(heap, map)
<1>1. /\ ring' = [i \in Slots |-> IF i \in InUse THEN Null ELSE ring[i]]
      /\ attached' = [i \in Slots |-> IF i \in InUse THEN Null ELSE attached[i]]
  BY Zenon DEF Disable
<1>2. \E heap, map : Release(heap, map)
  BY Zenon DEF Disable
<1> HIDE DEF InUse
<1> QED
  BY <1>1, <1>2

(* Disabling leaves no slot with a buffer.                                  *)
LEMMA HeldDisable ==
  ASSUME RingInv, HeldBlocks, Disable, pc' # "attach" PROVE HeldBlocks'
<1>1. PICK heap, map : Release(heap, map)
  BY DisableForgets
<1> QED
  BY <1>1, DisableForgets, HeldAfterRelease

(* A block taken for an allocation was pointed to by nothing.               *)
LEMMA FreshUnheld ==
  ASSUME HeldBlocks, Unused # {}
  PROVE  /\ Fresh \in Blocks /\ memory[Fresh] = "unused"
         /\ \A i \in Slots : ring[i].block # Fresh /\ attached[i].block # Fresh
<1>1. Fresh \in Blocks /\ memory[Fresh] = "unused"
  BY FreshUnused
<1> HIDE DEF Fresh, Unused
<1> QED
  BY <1>1 DEF HeldBlocks

(* The block allocated for a configuration is in no slot yet.               *)
LEMMA HeldAllocate == ASSUME RingInv, HeldBlocks, Allocate PROVE HeldBlocks'
<1>1. /\ UNCHANGED <<ring, attached, mmap, how, index>>
      /\ how = "library" => Unused # {} /\ base' = Fresh /\ memory' = [memory EXCEPT ![Fresh] = "heap"]
      /\ how # "library" => UNCHANGED memory
  BY Zenon DEF Allocate, driver, call
<1>2. CASE how = "library"
  <2>1. /\ Fresh \in Blocks /\ memory[Fresh] = "unused"
        /\ \A i \in Slots : ring[i].block # Fresh /\ attached[i].block # Fresh
    BY <1>1, <1>2, FreshUnheld
  <2> HIDE DEF Fresh, Unused
  <2>2. \A b \in Blocks : b # Fresh => memory'[b] = memory[b]
    BY <1>1, <1>2 DEF RingInv, TypeOK
  <2> QED
    BY <1>1, <1>2, <2>1, <2>2 DEF HeldBlocks
<1>3. CASE how # "library"
  BY <1>1, <1>3 DEF HeldBlocks
<1> QED
  BY <1>2, <1>3

(* The buffer given to a slot is in the base buffer, which is heap memory.  *)
LEMMA BufferHeld ==
  ASSUME RingInv, pc = "attach", Buffer(index).block \in Blocks
  PROVE  memory[Buffer(index).block] = "heap"
<1>1. ~mmap /\ how = "library" /\ Buffer(index).block = base
  <2>1. None \notin Blocks /\ User \notin Blocks
    BY RingConfigAssumption DEF None, User, Blocks
  <2>2. CASE mmap
    BY <2>1, <2>2, PointerParts DEF Buffer
  <2>3. CASE ~mmap
    BY <2>1, <2>3, PointerParts DEF Buffer
  <2> QED
    BY <2>2, <2>3
<1>2. base # None
  BY <1>1 DEF RingInv, Calling
<1> QED
  BY <1>1, <1>2 DEF RingInv, BaseOfMode

(* The block attached is held while it is.                                  *)
LEMMA HeldAttach ==
  ASSUME RingInv, HeldBlocks, Attach \/ AttachFails PROVE HeldBlocks'
<1>1. /\ UNCHANGED <<mmap, memory, base>> /\ pc = "attach" /\ index < want
      /\ ring' = [ring EXCEPT ![index] = Buffer(index)]
      /\ \/ attached' = [attached EXCEPT ![index] = IF mmap THEN At(Kernel, index) ELSE Buffer(index)]
            /\ index' = index + 1 /\ UNCHANGED how
         \/ pc' = "idle" /\ UNCHANGED attached
  BY Zenon DEF Attach, AttachFails, Return, blocks, driver
<1>2. index \in Slots /\ index \in Nat /\ want \in 1 .. MaxBufs
  BY <1>1, RingConfigAssumption DEF RingInv, TypeOK, Calling, Slots
<1>3. ring \in [Slots -> Pointers] /\ attached \in [Slots -> Pointers]
  BY DEF RingInv, TypeOK
<1>4. Buffer(index).block \in Blocks => memory[Buffer(index).block] = "heap"
  BY <1>1, BufferHeld
<1>5. Kernel \notin Blocks /\ \A b \in Blocks : b \in Nat
  BY RingConfigAssumption DEF Kernel, Blocks
<1> HIDE DEF Buffer
<1>6. ASSUME NEW i \in Slots, ring'[i].block \in Blocks
      PROVE  memory'[ring'[i].block] # "unused"
  <2>1. CASE i = index
    BY <1>1, <1>2, <1>3, <1>4, <1>6, <2>1
  <2>2. CASE i # index
    BY <1>1, <1>2, <1>3, <1>6, <2>2 DEF HeldBlocks
  <2> QED
    BY <2>1, <2>2
<1>7. \A i \in Slots : attached'[i] = attached[i]
                       \/ (i = index /\ attached'[i] \in {At(Kernel, i), Buffer(i)})
  BY <1>1, <1>2, <1>3
<1>8. ASSUME NEW i \in Slots, attached'[i].block \in Blocks
      PROVE  memory'[attached'[i].block] \in {"heap", "gone"}
  BY <1>1, <1>4, <1>5, <1>7, <1>8, PointerParts DEF HeldBlocks
<1>9. pc' = "attach" /\ ~mmap' /\ how' = "library" =>
        \A i \in Slots : i >= index' => attached'[i].block # base'
  <2> SUFFICES ASSUME index' = index + 1, UNCHANGED how, ~mmap, how = "library",
                      NEW i \in Slots, i >= index + 1
               PROVE  attached'[i].block # base
    BY <1>1
  <2>1. i # index /\ i >= index
    BY <1>2, RingConfigAssumption DEF Slots
  <2> QED
    BY <1>1, <1>7, <2>1 DEF HeldBlocks
<1> QED
  BY <1>6, <1>8, <1>9 DEF HeldBlocks

(* The block mapped is held by all slots.                                   *)
LEMMA HeldMap == ASSUME RingInv, HeldBlocks, Map PROVE HeldBlocks'
<1>1. /\ UNCHANGED attached /\ pc' = "idle" /\ Unused # {}
      /\ memory' = [memory EXCEPT ![Fresh] = "map"]
      /\ ring' = [i \in Slots |-> IF i < want THEN At(Fresh, i) ELSE ring[i]]
  BY Zenon DEF Map, Success, Return, driver
<1>2. /\ Fresh \in Blocks /\ memory[Fresh] = "unused"
      /\ \A i \in Slots : ring[i].block # Fresh /\ attached[i].block # Fresh
  BY <1>1, FreshUnheld
<1> HIDE DEF Fresh, Unused
<1>3. \A b \in Blocks : memory'[b] = IF b = Fresh THEN "map" ELSE memory[b]
  BY <1>1, <1>2 DEF RingInv, TypeOK
<1>4. \A i \in Slots : ring'[i].block = Fresh \/ ring'[i] = ring[i]
  BY <1>1, PointerParts
<1> QED
  BY <1>1, <1>2, <1>3, <1>4 DEF HeldBlocks

(* A buffer added is of a block of its own, or of the application.          *)
LEMMA HeldAdd == ASSUME RingInv, HeldBlocks, NEW mine \in BOOLEAN, Add(mine) PROVE HeldBlocks'
<1>1. PICK i \in Slots :
      /\ UNCHANGED pc /\ pc = "idle" /\ ring[i] = Null
      /\ \/ /\ Unused # {}
            /\ ring' = [ring EXCEPT ![i] = At(Fresh, 0)]
            /\ memory' = [memory EXCEPT ![Fresh] = "heap"]
         \/ UNCHANGED <<ring, memory>>
         \/ ring' = [ring EXCEPT ![i] = At(User, i)] /\ UNCHANGED memory
      /\ \/ ring'[i] # Null /\ attached' = [attached EXCEPT ![i] = ring'[i]]
         \/ UNCHANGED attached
  <2>1. FreeSlots # {}
    BY Zenon DEF Add
  <2>2. Min(FreeSlots) \in Slots /\ ring[Min(FreeSlots)] = Null
    BY <2>1, FirstFreeSlot DEF FreeSlots
  <2> QED
    BY <2>2, Zenon DEF Add
<1>2. /\ ring \in [Slots -> Pointers] /\ attached \in [Slots -> Pointers] /\ MemoryType
      /\ User \notin Blocks
  BY RingConfigAssumption DEF RingInv, TypeOK, MemoryType, User, Blocks
<1>3. Unused # {} => /\ Fresh \in Blocks /\ memory[Fresh] = "unused"
                     /\ \A j \in Slots : ring[j].block # Fresh /\ attached[j].block # Fresh
  BY FreshUnheld
<1> HIDE DEF Fresh, Unused
<1>4. /\ \A j \in Slots : j # i => ring'[j] = ring[j] /\ attached'[j] = attached[j]
      /\ attached'[i] = attached[i] \/ (attached'[i] = ring'[i] /\ ring'[i] # Null)
  BY <1>1, <1>2
<1>5. CASE Unused # {} /\ ring' = [ring EXCEPT ![i] = At(Fresh, 0)]
           /\ memory' = [memory EXCEPT ![Fresh] = "heap"]
  <2>1. ring'[i].block = Fresh
    BY <1>2, <1>5, PointerParts
  <2>2. \A b \in Blocks : memory'[b] = IF b = Fresh THEN "heap" ELSE memory[b]
    BY <1>2, <1>3, <1>5 DEF MemoryType
  <2> QED
    BY <1>1, <1>3, <1>4, <1>5, <2>1, <2>2 DEF HeldBlocks
<1>6. CASE UNCHANGED <<ring, memory>>
  <2>1. UNCHANGED attached
    BY <1>1, <1>6
  <2> QED
    BY <1>1, <1>6, <2>1 DEF HeldBlocks
<1>7. CASE ring' = [ring EXCEPT ![i] = At(User, i)] /\ UNCHANGED memory
  <2>1. ring'[i].block = User
    BY <1>2, <1>7, PointerParts
  <2> QED
    BY <1>1, <1>2, <1>4, <1>7, <2>1 DEF HeldBlocks
<1> QED
  BY <1>1, <1>5, <1>6, <1>7

(* No step lets a pointer dangle into a block that can be allocated again.  *)
LEMMA HeldStep == ASSUME RingInv, HeldBlocks, [RingStep]_vars PROVE HeldBlocks'
<1>1. ASSUME UNCHANGED <<ring, attached, memory>>, pc' # "attach" PROVE HeldBlocks'
  BY <1>1 DEF HeldBlocks
<1>2. CASE \E on \in Modes : SetMmap(on)
  BY <1>1, <1>2 DEF SetMmap, device, driver, blocks
<1>3. CASE \E n \in 1 .. MaxBufs, h \in Hows : CallConfigure(n, h)
  <2>1. UNCHANGED <<ring, attached, memory>>
    BY <1>3, Zenon DEF CallConfigure, driver, blocks
  <2>2. pc' # "attach"
    BY <1>3 DEF CallConfigure, Return
  <2> QED
    BY <1>1, <2>1, <2>2
<1>4. CASE DisableOld \/ CallDisable \/ CloseConfigured
  <2>1. Disable
    BY <1>4, Zenon DEF DisableOld, CallDisable, CloseConfigured
  <2>2. pc' # "attach"
    BY <1>4 DEF DisableOld, CallDisable, CloseConfigured
  <2> QED
    BY <2>1, <2>2, HeldDisable
<1>5. CASE SetNumbufs
  <2>1. UNCHANGED <<ring, attached, memory, mmap, how>>
    BY <1>5, Zenon DEF SetNumbufs, blocks, call
  <2>2. pc' = "attach" => how = "bufarray" \/ mmap
    BY <1>5 DEF SetNumbufs
  <2> QED
    BY <2>1, <2>2 DEF HeldBlocks
<1>6. CASE FreeBase
  <2>1. UNCHANGED <<ring, attached>> /\ pc' = "allocate" /\ Release({base}, {})
    BY <1>6, Zenon DEF FreeBase, driver
  <2> QED
    BY <2>1, HeldAfterRelease
<1>7. CASE Allocate
  BY <1>7, HeldAllocate
<1>8. CASE AllocateFails \/ MapFails \/ Finish
  <2>1. UNCHANGED <<ring, attached, memory>> /\ pc' = "idle"
    BY <1>8, Zenon DEF AllocateFails, MapFails, Finish, Success, Return, device, driver, blocks
  <2> QED
    BY <1>1, <2>1
<1>9. CASE Attach \/ AttachFails
  BY <1>9, HeldAttach
<1>10. CASE Map
  BY <1>10, HeldMap
<1>11. ASSUME NEW mine \in BOOLEAN, Add(mine) PROVE HeldBlocks'
  BY <1>11, HeldAdd
<1>12. CASE CloseOther
  <2>1. UNCHANGED <<ring, memory>> /\ pc' = "closed" /\ attached' = [i \in Slots |-> Null]
    BY <1>12, Zenon DEF CloseOther, device, blocks
  <2>2. None \notin Blocks
    BY RingConfigAssumption DEF None, Blocks
  <2>3. \A i \in Slots : attached'[i].block \notin Blocks
    BY <2>1, <2>2, PointerParts
  <2> QED
    BY <2>1, <2>3 DEF HeldBlocks
<1>13. CASE UNCHANGED vars
  <2>1. UNCHANGED <<ring, attached, memory, pc, mmap, how, index, base>>
    BY <1>13, Zenon DEF vars, device, driver, blocks, call
  <2> QED
    BY <2>1 DEF HeldBlocks
<1> QED
  BY <1>2, <1>3, <1>4, <1>5, <1>6, <1>7, <1>8, <1>9, <1>10, <1>11, <1>12, <1>13
  DEF RingStep, ConfigureStep

(* Only a block nothing pointed to becomes a mapping.                       *)
LEMMA MappedStep ==
  ASSUME RingInv, [RingStep]_vars, NEW b \in Blocks, memory'[b] = "map"
  PROVE  memory[b] \in {"map", "unused"}
<1>1. CASE UNCHANGED memory
  BY <1>1
<1>2. ASSUME NEW heap, NEW map, Release(heap, map) PROVE memory[b] = "map"
  BY <1>2, ReleasedHeld
<1>3. ASSUME Unused # {}, \/ memory' = [memory EXCEPT ![Fresh] = "heap"]
                         \/ memory' = [memory EXCEPT ![Fresh] = "map"]
      PROVE  memory[b] \in {"map", "unused"}
  <2>1. Fresh \in Blocks /\ memory[Fresh] = "unused"
    BY <1>3, FreshUnused
  <2> HIDE DEF Fresh
  <2> QED
    BY <1>3, <2>1 DEF RingInv, TypeOK
<1> HIDE DEF Fresh, Unused
<1>4. CASE DisableOld \/ CallDisable \/ CloseConfigured
  <2>1. Disable
    BY <1>4, Zenon DEF DisableOld, CallDisable, CloseConfigured
  <2> QED
    BY <1>2, <2>1, DisableForgets
<1>5. CASE FreeBase
  BY <1>2, <1>5 DEF FreeBase
<1>6. CASE Allocate
  <2>1. \/ UNCHANGED memory
        \/ Unused # {} /\ memory' = [memory EXCEPT ![Fresh] = "heap"]
    BY <1>6, Zenon DEF Allocate
  <2> QED
    BY <1>1, <1>3, <2>1
<1>7. CASE Map
  <2>1. Unused # {} /\ memory' = [memory EXCEPT ![Fresh] = "map"]
    BY <1>7, Zenon DEF Map
  <2> QED
    BY <1>3, <2>1
<1>8. ASSUME NEW mine \in BOOLEAN, Add(mine) PROVE memory[b] \in {"map", "unused"}
  <2>1. \/ UNCHANGED memory
        \/ Unused # {} /\ memory' = [memory EXCEPT ![Fresh] = "heap"]
    BY <1>8, Zenon DEF Add
  <2> QED
    BY <1>1, <1>3, <2>1
<1>9. CASE \/ \E on \in Modes : SetMmap(on)
           \/ \E n \in 1 .. MaxBufs, h \in Hows : CallConfigure(n, h)
           \/ SetNumbufs \/ AllocateFails \/ Attach \/ AttachFails \/ Finish \/ MapFails
           \/ CloseOther \/ UNCHANGED vars
  <2>1. UNCHANGED memory
    BY <1>9, Zenon
    DEF SetMmap, CallConfigure, SetNumbufs, AllocateFails, Attach, AttachFails, Finish, MapFails,
        CloseOther, vars, blocks
  <2> QED
    BY <1>1, <2>1
<1> QED
  BY <1>4, <1>5, <1>6, <1>7, <1>8, <1>9 DEF RingStep, ConfigureStep

-----------------------------------------------------------------------------
(* Sizes.                                                                   *)

(* A slot whose pointers and sizes a step leaves, or forgets in the driver, *)
(* still fits.                                                              *)
Fits(i) ==
  ring[i].block \in Blocks => Ample(i) /\ (Agree(i) => drvsize[i] <= room[i] \/ i \in headed)

(* What a transfer of a buffer needs stays so while the buffer does.        *)
LEMMA StillFits ==
  ASSUME RingInv, HeldBlocks, HeldBlocks', [RingStep]_vars,
         NEW i \in Slots, Fits(i), UNCHANGED <<ring[i], room[i], allocated[i]>>, i \in headed => i \in headed',
         (UNCHANGED <<attached[i], drvsize[i]>>) \/ attached'[i] = Null
  PROVE  Fits(i)'
<1> SUFFICES ASSUME ring[i].block \in Blocks
             PROVE  Ample(i)' /\ (Agree(i)' => drvsize'[i] <= room'[i] \/ i \in headed')
  BY DEF Fits
<1>1. Ample(i)'
  BY DEF Fits, Ample
<1>2. ASSUME Agree(i)' PROVE drvsize'[i] <= room'[i] \/ i \in headed'
  <2>1. None \notin Blocks /\ Kernel # None
    BY RingConfigAssumption DEF None, Blocks, Kernel
  <2>2. attached'[i] # Null
    BY <1>2, <2>1, PointerParts DEF Agree
  <2>3. UNCHANGED <<attached[i], drvsize[i]>>
    BY <2>2
  <2>4. Agree(i)
    <3>1. CASE Mapped(ring[i])'
      <4>1. memory[ring[i].block] \in {"map", "unused"}
        BY <3>1, MappedStep DEF Mapped
      <4>2. Mapped(ring[i])
        BY <4>1 DEF Mapped, HeldBlocks
      <4> QED
        BY <1>2, <2>3, <3>1, <4>2 DEF Agree
    <3>2. CASE ~Mapped(ring[i])'
      <4>1. attached[i] = ring[i]
        BY <1>2, <2>3, <3>2 DEF Agree
      <4>2. ~Mapped(ring[i])
        BY <4>1 DEF Mapped, HeldBlocks
      <4> QED
        BY <4>1, <4>2 DEF Agree
    <3> QED
      BY <3>1, <3>2
  <2> QED
    BY <2>3, <2>4 DEF Fits
<1> QED
  BY <1>1, <1>2

(* Detach keeps the sizes of the slots it does not empty.                   *)
LEMMA DetachFits ==
  ASSUME RingInv, MoreType, HeldBlocks, HeldBlocks', [RingStep]_vars, AllFit, Detach,
         NEW i \in Slots, ring'[i] = ring[i] \/ ring'[i] = Null,
         attached'[i] = attached[i] \/ attached'[i] = Null
  PROVE  Fits(i)'
<1>1. None \notin Blocks
  BY RingConfigAssumption DEF None, Blocks
<1>2. CASE ring'[i] = Null
  BY <1>1, <1>2, PointerParts DEF Fits
<1>3. CASE ring'[i] # Null
  <2>1. ring'[i] = ring[i] /\ room'[i] = room[i] /\ allocated'[i] = allocated[i]
        /\ (i \in headed => i \in headed')
    BY <1>3 DEF Detach
  <2>2. drvsize'[i] = drvsize[i] \/ attached'[i] = Null
    BY DEF Detach
  <2>3. Fits(i)
    BY DEF AllFit, Fits
  <2> QED
    BY <2>1, <2>2, <2>3, StillFits
<1> QED
  BY <1>2, <1>3

(* AllFit, slot by slot.                                                    *)
LEMMA AllFitIsFits == AllFit <=> \A i \in Slots : Fits(i)
BY DEF AllFit, Fits

(* What Detach keeps typed.                                                 *)
LEMMA DetachTyped ==
  ASSUME MoreType, Detach
  PROVE  /\ allocated' \in [Slots -> Nat] /\ drvsize' \in [Slots -> Nat]
         /\ room' \in [Slots -> Int] /\ headed' \subseteq Slots
BY DEF MoreType, Detach

(* AllFit is about buffers, their room and the driver's sizes alone.        *)
LEMMA QuietFits ==
  ASSUME AllFit, UNCHANGED <<ring, attached, memory, drvsize, room, allocated, headed>>
  PROVE  AllFit'
BY DEF AllFit, Ample, Agree, Mapped

(* The full size of a buffer holds its header and its data.                 *)
LEMMA FullSize ==
  ASSUME MoreType
  PROVE  /\ edt_get_total_bufsize(size) \in Nat
         /\ edt_get_total_bufsize(size) >= header + size
<1>1. header + size \in Nat /\ Granularity \in Nat \ {0}
  BY TransfersAssumption DEF MoreType
<1> QED
  BY <1>1, RoundUp DEF edt_get_total_bufsize

(* A buffer given to a slot has room for what is asked for, and for its     *)
(* allocated size unless there is a header before it.                       *)
LEMMA RoomFits ==
  ASSUME MoreType, SizesKnown, pc = "attach", how # "bufarray"
  PROVE  full > 0 /\ size <= Room /\ Room \in Int /\ (full <= Room \/ before)
<1>1. size > 0 /\ full >= header + size
  BY DEF SizesKnown, Configuring
<1> QED
  BY <1>1 DEF MoreType, Room

-----------------------------------------------------------------------------
(* Steps.                                                                   *)

(* Every step of an application is a step of the calls of RingConfig, or    *)
(* none; that a single transfer disables its ring is a call of its own.     *)
LEMMA StepsOfTheRing ==
  ASSUME TransfersInv, [NextTransfers]_<<vars, more>> PROVE [RingStep]_vars
<1>1. ASSUME NEW n \in Numbers, NEW h \in Hows, NEW s \in Sizes, Configure(n, h, s) PROVE RingStep
  <2>1. n \in 1 .. MaxBufs
    BY RingConfigAssumption
  <2> QED
    BY <1>1, <2>1, Zenon DEF Configure, RingStep
<1>2. ASSUME NEW s \in Sizes, Shoot(s) PROVE RingStep
  <2>1. 1 \in 1 .. MaxBufs /\ "library" \in Hows
    BY RingConfigAssumption DEF Hows
  <2> QED
    BY <1>2, <2>1, Zenon DEF Shoot, RingStep
<1>3. CASE Number \/ Memory \/ SizeBuffer
  BY <1>3, Zenon DEF Number, Memory, SizeBuffer, RingStep, ConfigureStep
<1>4. ASSUME NEW mine \in BOOLEAN, NEW s \in Sizes, AddBuffer(mine, s) PROVE RingStep
  BY <1>4, Zenon DEF AddBuffer, RingStep
<1>5. CASE Application
  BY <1>5, Zenon DEF Application, RingStep
<1>6. CASE EndShot
  <2>1. pc = "idle"
    BY <1>6 DEF EndShot, TransfersInv, ShotProceeds, Ready
  <2> QED
    BY <1>6, <2>1, Zenon DEF EndShot, CallDisable, RingStep
<1>7. CASE \/ \E i \in Slots, s \in Sizes : edt_set_buffer_size(i, s)
           \/ edt_next_writebuf \/ \E n \in 0 .. MaxHanded : edt_set_buffer(n)
           \/ Refused \/ StartShot \/ WaitShot \/ CountShot \/ UNCHANGED <<vars, more>>
  <2>1. UNCHANGED vars
    BY <1>7, Zenon
    DEF edt_set_buffer_size, edt_next_writebuf, edt_set_buffer, Refused, StartShot, WaitShot, CountShot
  <2> QED
    BY <2>1
<1> QED
  BY <1>1, <1>2, <1>3, <1>4, <1>5, <1>6, <1>7, Zenon DEF NextTransfers

(* The calls that configure the ring, for output and for single transfers.  *)
LEMMA ConfigureKept ==
  ASSUME TransfersInv, RingInv', HeldBlocks',
         NEW n \in Numbers, NEW h \in Hows, NEW s \in Sizes, Configure(n, h, s)
  PROVE  TransfersInv'
<1>1. /\ UNCHANGED <<full, allocated, room, headed, drvsize, nextwbuf, handed, shot, result, moved,
                     late, timeouts, timecount>>
      /\ UNCHANGED <<configured, ring, attached, memory, numbufs, drvbufs, promised>>
      /\ shot = "none" /\ size' = IF pc' = "idle" THEN 0 ELSE s
      /\ UNCHANGED header \/ header' \in Headers
  BY Zenon
  DEF Configure, CallConfigure, Between, extent, turn, single, board, driver, blocks, history
<1>2. pc' \in {"idle", "disable", "number"}
  BY DEF Configure, CallConfigure, Return
<1>3. MoreType'
  BY <1>1, TransfersAssumption DEF TransfersInv, MoreType
<1>4. SizesKnown' /\ SizedSoFar'
  BY <1>1, <1>2, TransfersAssumption DEF SizesKnown, Configuring, SizedSoFar
<1>5. AllFit'
  BY <1>1, QuietFits DEF TransfersInv
<1>6. TurnKept' /\ ShotProceeds' /\ CountTrue'
  BY <1>1, <1>2 DEF TransfersInv, TurnKept, ShotProceeds, CountTrue
<1> QED
  BY <1>3, <1>4, <1>5, <1>6 DEF TransfersInv

(* A single transfer begins.                                                *)
LEMMA ShootKept ==
  ASSUME TransfersInv, RingInv', HeldBlocks', NEW s \in Sizes, Shoot(s) PROVE TransfersInv'
<1>1. /\ UNCHANGED <<header, full, allocated, room, headed, drvsize, nextwbuf, handed, result, moved,
                     timeouts, timecount>>
      /\ UNCHANGED <<configured, ring, attached, memory, numbufs, drvbufs, promised>>
      /\ shot' = "configure" /\ size' = s /\ late' = (timeouts > 0)
  BY Zenon
  DEF Shoot, CallConfigure, layout, extent, turn, board, driver, blocks, history
<1>2. \/ pc' = "idle" /\ rc' = -1
      \/ pc' \in {"disable", "number"} /\ want' = 1 /\ how' = "library"
  BY DEF Shoot, CallConfigure, Return
<1>3. MoreType'
  BY <1>1, TransfersAssumption DEF TransfersInv, MoreType
<1>4. SizesKnown' /\ SizedSoFar'
  BY <1>1, <1>2, TransfersAssumption DEF SizesKnown, Configuring, SizedSoFar
<1>5. AllFit'
  BY <1>1, QuietFits DEF TransfersInv
<1>6. TurnKept' /\ ShotProceeds'
  BY <1>1, <1>2 DEF TransfersInv, TurnKept, ShotProceeds, Configuring
<1>7. CountTrue'
  <2>1. ~late' => timeouts = 0
    <3>1. ~late' => ~(timeouts > 0)
      BY <1>1, Zenon
    <3> QED
      BY <3>1 DEF TransfersInv, MoreType
  <2> QED
    BY <1>1, <2>1 DEF CountTrue
<1> QED
  BY <1>3, <1>4, <1>5, <1>6, <1>7 DEF TransfersInv

(* The turn begins with the first buffer of the new ring.                   *)
LEMMA NumberKept ==
  ASSUME TransfersInv, RingInv', HeldBlocks', Number PROVE TransfersInv'
<1>1. /\ UNCHANGED <<header, size, allocated, room, headed, drvsize, shot, result, moved,
                     late, timeouts, timecount>>
      /\ UNCHANGED <<configured, ring, attached, memory, want, how, index, rc>>
      /\ pc = "number" /\ numbufs' = want /\ drvbufs' = want
      /\ full' = IF how = "bufarray" THEN full ELSE edt_get_total_bufsize(size)
      /\ nextwbuf' = 0 /\ handed' = 0
  BY Zenon DEF Number, SetNumbufs, extent, single, board, blocks, call
<1>2. pc' \in {"attach", "allocate"}
  BY DEF Number, SetNumbufs
<1>3. want \in 1 .. MaxBufs /\ index = 0 /\ ~configured
  BY <1>1 DEF TransfersInv, RingInv, Calling
<1>4. /\ edt_get_total_bufsize(size) \in Nat
      /\ edt_get_total_bufsize(size) >= header + size
  BY FullSize DEF TransfersInv
<1> HIDE DEF edt_get_total_bufsize
<1>5. MoreType'
  BY <1>1, <1>4 DEF TransfersInv, MoreType
<1>6. SizesKnown'
  BY <1>1, <1>4 DEF TransfersInv, SizesKnown, Configuring
<1>7. SizedSoFar'
  BY <1>1, <1>3 DEF SizedSoFar
<1>8. AllFit'
  BY <1>1, QuietFits DEF TransfersInv
<1>9. TurnKept'
  <2>1. want \in Nat \ {0} /\ 0 \in 0 .. want - 1
    BY <1>3, RingConfigAssumption
  <2>2. 0 % want = 0
    BY <2>1, SmallRemainder
  <2> QED
    BY <1>1, <1>3, <2>1, <2>2 DEF TurnKept
<1>10. ShotProceeds'
  BY <1>1, <1>2 DEF TransfersInv, ShotProceeds, Configuring, Ready
<1>11. CountTrue'
  BY <1>1 DEF TransfersInv, CountTrue
<1> QED
  BY <1>5, <1>6, <1>7, <1>8, <1>9, <1>10, <1>11 DEF TransfersInv

(* The library's memory calls, but for a configuration's success: the sizes *)
(* follow the slots they are of.                                            *)
LEMMA MemoryKept ==
  ASSUME TransfersInv, RingInv', HeldBlocks', [RingStep]_vars,
         DisableOld \/ FreeBase \/ Allocate \/ AllocateFails \/ MapFails, Detach, KeepSize,
         UNCHANGED <<layout, turn, single, board>>
  PROVE  TransfersInv'
<1>1. /\ size' = IF pc' = "idle" /\ shot = "none" THEN 0 ELSE size
      /\ UNCHANGED <<header, before, full, nextwbuf, handed, shot, result, moved, late,
                     timeouts, timecount>>
  BY Zenon DEF KeepSize, layout, turn, single, board
<1>2. /\ pc \in {"disable", "allocate", "attach"} /\ ~configured'
      /\ \/ pc' = "number" /\ UNCHANGED <<want, how>>
         \/ pc' \in {"allocate", "attach"} /\ pc = "allocate"
            /\ UNCHANGED <<want, how, index, numbufs, drvbufs>>
         \/ pc' = "idle" /\ rc' = -1
  <2>1. CASE DisableOld
    BY <2>1, Zenon DEF DisableOld, Disable, call
  <2>2. CASE FreeBase
    <3>1. ~configured
      BY <2>2 DEF FreeBase, TransfersInv, RingInv, Calling
    <3> QED
      BY <2>2, <3>1, Zenon DEF FreeBase, driver, call
  <2>3. CASE Allocate
    <3>1. ~configured
      BY <2>3 DEF Allocate, TransfersInv, RingInv, Calling
    <3> QED
      BY <2>3, <3>1, Zenon DEF Allocate, driver, call
  <2>4. CASE AllocateFails
    <3>1. ~configured
      BY <2>4 DEF AllocateFails, TransfersInv, RingInv, Calling
    <3> QED
      BY <2>4, <3>1, Zenon DEF AllocateFails, Return, device
  <2>5. CASE MapFails
    <3>1. ~configured
      BY <2>5 DEF MapFails, TransfersInv, RingInv, Calling
    <3> QED
      BY <2>5, <3>1, Zenon DEF MapFails, Return
  <2> QED
    BY <2>1, <2>2, <2>3, <2>4, <2>5
<1>3. \A i \in Slots : /\ ring'[i] = ring[i] \/ ring'[i] = Null
                       /\ attached'[i] = attached[i] \/ attached'[i] = Null
  <2>1. CASE DisableOld
    BY <2>1, DisableForgets DEF DisableOld, TransfersInv
  <2>2. CASE FreeBase \/ Allocate \/ AllocateFails \/ MapFails
    <3>1. UNCHANGED <<ring, attached>>
      BY <2>2, Zenon DEF FreeBase, Allocate, AllocateFails, MapFails, driver, device
    <3> QED
      BY <3>1
  <2> QED
    BY <2>1, <2>2
<1>4. MoreType'
  BY <1>1, DetachTyped DEF TransfersInv, MoreType
<1>5. SizesKnown'
  BY <1>1, <1>2 DEF TransfersInv, SizesKnown, Configuring
<1>6. SizedSoFar'
  <2>1. pc' = "attach" => index' = 0
    BY <1>2 DEF TransfersInv, RingInv, Calling
  <2> QED
    BY <2>1 DEF SizedSoFar
<1>7. AllFit'
  <2>1. \A i \in Slots : Fits(i)'
    BY <1>3, DetachFits DEF TransfersInv
  <2> QED
    BY <2>1 DEF AllFit, Fits
<1>8. TurnKept'
  BY <1>1, <1>2 DEF TransfersInv, TurnKept
<1>9. ShotProceeds'
  BY <1>1, <1>2 DEF TransfersInv, ShotProceeds, Configuring, Ready
<1>10. CountTrue'
  <2>1. shot # "woken"
    BY <1>2 DEF TransfersInv, ShotProceeds, Ready
  <2> QED
    BY <1>1, <2>1 DEF TransfersInv, CountTrue
<1> QED
  BY <1>4, <1>5, <1>6, <1>7, <1>8, <1>9, <1>10 DEF TransfersInv

(* A configuration that succeeds has given every buffer its size; mapping   *)
(* the buffers does not change it.                                          *)
LEMMA CompletedKept ==
  ASSUME TransfersInv, RingInv', HeldBlocks', [RingStep]_vars, Finish \/ Map, Detach, KeepSize,
         UNCHANGED <<layout, turn, single, board>>
  PROVE  TransfersInv'
<1>1. /\ size' = IF shot = "none" THEN 0 ELSE size
      /\ UNCHANGED <<header, before, full, nextwbuf, handed, shot, result, moved, late,
                     timeouts, timecount>>
      /\ pc = "attach" /\ index = want /\ configured' = TRUE /\ promised' = want
      /\ pc' = "idle" /\ UNCHANGED <<numbufs, attached, drvbufs>>
  BY Zenon DEF KeepSize, layout, turn, single, board, Finish, Map, Success, Return, driver
<1>2. /\ want \in 1 .. MaxBufs /\ numbufs = want /\ drvbufs = want /\ (mmap => how = "library")
      /\ ~mmap /\ how = "library" => base # None
  BY <1>1 DEF TransfersInv, RingInv, Calling
<1>3. \/ ~mmap /\ UNCHANGED ring
      \/ /\ mmap /\ Unused # {}
         /\ ring' = [i \in Slots |-> IF i < want THEN At(Fresh, i) ELSE ring[i]]
  BY Zenon DEF Finish, Map
<1>4. \A i \in Slots : i < want => i \in 0 .. index - 1
  BY <1>1, <1>2, RingConfigAssumption DEF Slots
<1>5. None # User /\ None # Kernel /\ None \notin Blocks
  BY RingConfigAssumption DEF None, User, Kernel, Blocks
<1>6. Unused # {} => Fresh # None
  BY <1>5, FreshUnused
<1> HIDE DEF Unused, Fresh
<1>7. ASSUME NEW i \in Slots, i < want PROVE ring'[i] # Null /\ attached'[i] # Null
  <2>1. /\ attached[i] = IF mmap THEN At(Kernel, i) ELSE Buffer(i)
        /\ ~mmap => ring[i] = Buffer(i)
    BY <1>1, <1>4, <1>7 DEF TransfersInv, RingInv, AttachedSoFar
  <2>2. CASE mmap
    <3>1. ring'[i] = At(Fresh, i) /\ Fresh # None
      BY <1>3, <1>6, <1>7, <2>2
    <3> QED
      BY <1>1, <1>5, <2>1, <2>2, <3>1, PointerParts
  <2>3. CASE ~mmap
    <3>1. Buffer(i).block # None
      BY <1>2, <1>5, <2>3, PointerParts DEF Buffer
    <3> QED
      BY <1>1, <1>3, <2>1, <2>3, <3>1, PointerParts
  <2> QED
    BY <2>2, <2>3
<1>8. ASSUME NEW i \in Slots, i < want
      PROVE  /\ drvsize'[i] = drvsize[i] /\ room'[i] = room[i] /\ allocated'[i] = allocated[i]
             /\ i \in headed => i \in headed'
  BY <1>7, <1>8 DEF Detach
<1>9. MoreType'
  BY <1>1, DetachTyped DEF TransfersInv, MoreType
<1>10. AllFit'
  <2> SUFFICES ASSUME NEW i \in Slots PROVE Fits(i)'
    BY DEF AllFit, Fits
  <2>1. CASE ring'[i] = ring[i]
    BY <1>1, <2>1, DetachFits DEF TransfersInv
  <2>2. CASE mmap /\ i < want
    <3>1. drvsize[i] <= room[i] /\ Ample(i)
      BY <1>1, <1>2, <1>4, <2>2 DEF TransfersInv, SizedSoFar
    <3> QED
      BY <1>8, <2>2, <3>1 DEF Fits, Ample
  <2> QED
    BY <1>3, <2>1, <2>2
<1>11. SizesKnown' /\ SizedSoFar'
  BY <1>1 DEF SizesKnown, Configuring, SizedSoFar
<1>12. TurnKept'
  BY <1>1, <1>2 DEF TransfersInv, TurnKept
<1>13. ShotProceeds'
  <2>1. shot \in {"wait", "woken", "copy"} => FALSE
    BY <1>1 DEF TransfersInv, ShotProceeds, Ready
  <2>2. ASSUME shot = "configure" PROVE Ready'
    <3>1. want = 1 /\ how = "library"
      BY <1>1, <2>2 DEF TransfersInv, ShotProceeds, Ready
    <3>2. 0 \in Slots /\ 0 < want /\ 0 \in 0 .. index - 1
      BY <1>1, <3>1, RingConfigAssumption DEF Slots
    <3>3. drvsize[0] = size /\ size <= room[0]
      BY <1>1, <3>1, <3>2 DEF TransfersInv, SizedSoFar
    <3>4. drvsize'[0] = drvsize[0] /\ room'[0] = room[0]
      BY <1>8, <3>2
    <3> QED
      BY <1>1, <2>2, <3>1, <3>3, <3>4 DEF Ready
  <2> QED
    BY <1>1, <2>1, <2>2 DEF ShotProceeds
<1>14. CountTrue'
  <2>1. shot # "woken"
    BY <1>1 DEF TransfersInv, ShotProceeds, Ready
  <2> QED
    BY <1>1, <2>1 DEF TransfersInv, CountTrue
<1> QED
  BY <1>9, <1>10, <1>11, <1>12, <1>13, <1>14 DEF TransfersInv

(* A slot attached gets its size; one whose attaching fails keeps what the  *)
(* driver has, which is another buffer.                                     *)
LEMMA SizeBufferKept ==
  ASSUME TransfersInv, RingInv', HeldBlocks', [RingStep]_vars, SizeBuffer PROVE TransfersInv'
<1>1. /\ allocated' = [allocated EXCEPT ![index] = IF full # 0 THEN full ELSE size]
      /\ room' = [room EXCEPT ![index] = Room]
      /\ headed' = IF before THEN headed \cup {index} ELSE headed \ {index}
      /\ drvsize' = [drvsize EXCEPT ![index] = IF pc' = "idle" THEN @ ELSE size]
      /\ size' = IF pc' = "idle" /\ shot = "none" THEN 0 ELSE size
      /\ UNCHANGED <<header, before, full, nextwbuf, handed, shot, result, moved, late,
                     timeouts, timecount>>
  BY Zenon DEF SizeBuffer, KeepSize, layout, turn, single, board
<1>2. /\ pc = "attach" /\ index < want /\ ring' = [ring EXCEPT ![index] = Buffer(index)]
      /\ UNCHANGED <<mmap, numbufs, configured, base, memory, drvbufs>>
      /\ \/ /\ attached' = [attached EXCEPT ![index] = IF mmap THEN At(Kernel, index) ELSE Buffer(index)]
            /\ pc' = "attach" /\ index' = index + 1 /\ UNCHANGED <<want, how>>
         \/ pc' = "idle" /\ rc' = -1 /\ UNCHANGED attached
  <2>1. CASE Attach
    BY <2>1, Zenon DEF Attach, blocks
  <2>2. CASE AttachFails
    BY <2>2, Zenon DEF AttachFails, Return, blocks, driver
  <2> QED
    BY <2>1, <2>2, Zenon DEF SizeBuffer
<1>3. ~configured /\ want \in 1 .. MaxBufs
  BY <1>2 DEF TransfersInv, RingInv, Calling
<1>4. index \in Slots /\ index \in Nat
  BY <1>2, <1>3, RingConfigAssumption DEF TransfersInv, RingInv, TypeOK, Slots
<1>5. /\ ring \in [Slots -> Pointers] /\ attached \in [Slots -> Pointers]
      /\ allocated \in [Slots -> Nat] /\ drvsize \in [Slots -> Nat] /\ room \in [Slots -> Int]
      /\ headed \subseteq Slots /\ full \in Nat /\ size \in Nat /\ header \in Nat
  BY DEF TransfersInv, RingInv, TypeOK, MoreType
<1>6. how # "bufarray" => full > 0 /\ size <= Room /\ (full <= Room \/ before)
  BY <1>2, RoomFits DEF TransfersInv
<1>7. Room \in Int
  BY <1>5 DEF Room
<1>8. \A i \in Slots :
        /\ allocated'[i] = IF i = index THEN (IF full # 0 THEN full ELSE size) ELSE allocated[i]
        /\ room'[i] = IF i = index THEN Room ELSE room[i]
        /\ drvsize'[i] = IF i = index /\ pc' # "idle" THEN size ELSE drvsize[i]
        /\ i # index => (i \in headed' <=> i \in headed) /\ ring'[i] = ring[i]
                        /\ attached'[i] = attached[i]
  <2> HIDE DEF Room, Buffer
  <2> QED
    BY <1>1, <1>2, <1>4, <1>5
<1> HIDE DEF Room
<1>9. MoreType'
  <2>1. /\ allocated' \in [Slots -> Nat] /\ drvsize' \in [Slots -> Nat]
        /\ room' \in [Slots -> Int] /\ headed' \subseteq Slots
    BY <1>1, <1>4, <1>5, <1>7
  <2> QED
    BY <1>1, <2>1 DEF TransfersInv, MoreType
<1>10. SizesKnown'
  BY <1>1, <1>2 DEF TransfersInv, SizesKnown, Configuring
<1>11. ASSUME NEW i \in Slots, i = index, how # "bufarray" PROVE size <= room'[i] /\ Ample(i)'
  <2>1. full <= Room \/ i \in headed'
    BY <1>1, <1>6, <1>11
  <2> QED
    BY <1>4, <1>5, <1>6, <1>8, <1>11, <2>1 DEF Ample
<1>12. SizedSoFar'
  <2> SUFFICES ASSUME pc' = "attach", how # "bufarray", NEW i \in 0 .. index
               PROVE  drvsize'[i] = size /\ size <= room'[i] /\ Ample(i)'
    BY <1>1, <1>2, <1>4 DEF SizedSoFar
  <2>1. CASE i = index
    BY <1>4, <1>8, <1>11, <2>1
  <2>2. CASE i # index
    <3>1. i \in 0 .. index - 1 /\ i \in Slots
      BY <1>4, <2>2, RingConfigAssumption DEF Slots
    <3>2. drvsize[i] = size /\ size <= room[i] /\ Ample(i)
      BY <1>2, <3>1 DEF TransfersInv, SizedSoFar
    <3> QED
      BY <1>8, <2>2, <3>1, <3>2 DEF Ample
  <2> QED
    BY <2>1, <2>2
<1>13. AllFit'
  <2> SUFFICES ASSUME NEW i \in Slots PROVE Fits(i)'
    BY DEF AllFit, Fits
  <2>1. CASE i # index
    <3>1. Fits(i)
      BY DEF TransfersInv, AllFit, Fits
    <3> QED
      BY <1>8, <2>1, <3>1, StillFits DEF TransfersInv
  <2>2. CASE i = index
    <3> SUFFICES ASSUME Buffer(index).block \in Blocks PROVE Fits(i)'
      BY <1>2, <1>4, <1>5, <2>2 DEF Fits
    <3>1. ~mmap /\ how = "library" /\ Buffer(index).block = base
      <4>1. None \notin Blocks /\ User \notin Blocks
        BY RingConfigAssumption DEF None, User, Blocks
      <4>2. CASE mmap
        BY <4>1, <4>2, PointerParts DEF Buffer
      <4>3. CASE ~mmap
        BY <4>1, <4>3, PointerParts DEF Buffer
      <4> QED
        BY <4>2, <4>3
    <3>2. CASE pc' = "idle"
      <4>1. attached'[index].block # base
        BY <1>2, <1>4, <3>1, <3>2 DEF TransfersInv, HeldBlocks
      <4>2. ring'[index].block = base /\ memory'[base] = "heap"
        <5>1. memory[base] = "heap"
          BY <1>2, <3>1, BufferHeld DEF TransfersInv
        <5> QED
          BY <1>2, <1>4, <1>5, <3>1, <5>1
      <4>3. ~Mapped(ring[i])'
        BY <2>2, <4>2 DEF Mapped
      <4>4. ~Agree(i)'
        BY <2>2, <4>1, <4>2, <4>3 DEF Agree
      <4> QED
        BY <1>11, <2>2, <3>1, <4>4 DEF Fits
    <3>3. CASE pc' # "idle"
      BY <1>8, <1>11, <2>2, <3>1, <3>3 DEF Fits
    <3> QED
      BY <3>2, <3>3
  <2> QED
    BY <2>1, <2>2
<1>14. TurnKept'
  BY <1>1, <1>2, <1>3 DEF TransfersInv, TurnKept
<1>15. ShotProceeds'
  BY <1>1, <1>2 DEF TransfersInv, ShotProceeds, Configuring, Ready
<1>16. CountTrue'
  <2>1. shot # "woken"
    BY <1>2 DEF TransfersInv, ShotProceeds, Ready
  <2> QED
    BY <1>1, <2>1 DEF TransfersInv, CountTrue
<1> QED
  BY <1>9, <1>10, <1>12, <1>13, <1>14, <1>15, <1>16 DEF TransfersInv

(* An added buffer has the size it was brought or allocated with; the       *)
(* buffers handed out before are no longer in turn.                         *)
LEMMA AddBufferKept ==
  ASSUME TransfersInv, RingInv', HeldBlocks', [RingStep]_vars,
         NEW mine \in BOOLEAN, NEW s \in Sizes, AddBuffer(mine, s)
  PROVE  TransfersInv'
<1>1. PICK i \in Slots :
      /\ allocated' = [allocated EXCEPT ![i] = IF mine \/ full = 0 THEN s ELSE full]
      /\ room' = [room EXCEPT ![i] = s] /\ headed' = headed \ {i}
      /\ drvsize' = [drvsize EXCEPT ![i] = IF attached' = attached THEN @ ELSE s]
      /\ handed' = Lost
      /\ UNCHANGED <<header, before, full, size, nextwbuf, shot, result, moved, late,
                     timeouts, timecount>>
      /\ shot = "none" /\ pc = "idle" /\ UNCHANGED <<pc, configured, base, promised>>
      /\ numbufs' = numbufs + 1 /\ ~mmap /\ ring[i] = Null
      /\ \/ /\ mine /\ Unused # {}
            /\ ring' = [ring EXCEPT ![i] = At(Fresh, 0)]
            /\ memory' = [memory EXCEPT ![Fresh] = "heap"]
         \/ UNCHANGED <<ring, memory>>
         \/ ~mine /\ ring' = [ring EXCEPT ![i] = At(User, i)] /\ UNCHANGED memory
      /\ \/ ring'[i] # Null /\ attached' = [attached EXCEPT ![i] = ring'[i]]
         \/ UNCHANGED attached
  <2>1. FreeSlots # {}
    BY Zenon DEF AddBuffer, Add
  <2>2. Min(FreeSlots) \in Slots /\ ring[Min(FreeSlots)] = Null
    BY <2>1, FirstFreeSlot DEF FreeSlots
  <2> QED
    BY <2>2, Zenon DEF AddBuffer, Add, Between, layout, single, board
<1>2. /\ ring \in [Slots -> Pointers] /\ attached \in [Slots -> Pointers]
      /\ allocated \in [Slots -> Nat] /\ drvsize \in [Slots -> Nat] /\ room \in [Slots -> Int]
      /\ headed \subseteq Slots /\ full \in Nat /\ size \in Nat /\ header \in Nat /\ s \in Nat
      /\ numbufs \in Nat /\ nextwbuf \in Nat
  BY TransfersAssumption, RingConfigAssumption DEF TransfersInv, RingInv, TypeOK, MoreType
<1>3. User \notin Blocks /\ None \notin Blocks
  BY RingConfigAssumption DEF User, None, Blocks
<1>4. Unused # {} => /\ Fresh \in Blocks /\ memory[Fresh] = "unused"
                     /\ \A j \in Slots : attached[j].block # Fresh
  BY FreshUnheld DEF TransfersInv
<1> HIDE DEF Fresh, Unused
<1>5. \A j \in Slots : j # i => /\ ring'[j] = ring[j] /\ attached'[j] = attached[j]
                                /\ allocated'[j] = allocated[j] /\ room'[j] = room[j]
                                /\ drvsize'[j] = drvsize[j] /\ (j \in headed' <=> j \in headed)
  BY <1>1, <1>2
<1>6. room'[i] = s /\ (mine => allocated'[i] = s)
      /\ drvsize'[i] = IF attached' = attached THEN drvsize[i] ELSE s
  BY <1>1, <1>2
<1>7. MoreType'
  <2>1. /\ allocated' \in [Slots -> Nat] /\ drvsize' \in [Slots -> Nat]
        /\ room' \in [Slots -> Int] /\ headed' \subseteq Slots
    BY <1>1, <1>2
  <2> QED
    BY <1>1, <2>1 DEF TransfersInv, MoreType
<1>8. AllFit'
  <2> SUFFICES ASSUME NEW j \in Slots PROVE Fits(j)'
    BY DEF AllFit, Fits
  <2>1. CASE j # i
    <3>1. Fits(j)
      BY DEF TransfersInv, AllFit, Fits
    <3> QED
      BY <1>5, <2>1, <3>1, StillFits DEF TransfersInv
  <2>2. CASE j = i
    <3> SUFFICES ASSUME ring'[i].block \in Blocks PROVE Fits(i)'
      BY <2>2 DEF Fits
    <3>1. mine /\ Unused # {} /\ ring' = [ring EXCEPT ![i] = At(Fresh, 0)]
          /\ memory' = [memory EXCEPT ![Fresh] = "heap"]
      <4>1. ring' # ring
        BY <1>1, <1>3, PointerParts
      <4>2. ~(ring' = [ring EXCEPT ![i] = At(User, i)])
        BY <1>2, <1>3, PointerParts
      <4> QED
        BY <1>1, <4>1, <4>2
    <3>2. ring'[i].block = Fresh /\ ~Mapped(ring[i])'
      <4>1. ring'[i] = At(Fresh, 0)
        BY <1>2, <3>1
      <4>2. memory'[Fresh] = "heap"
        BY <1>4, <3>1 DEF TransfersInv, RingInv, TypeOK
      <4> QED
        BY <4>1, <4>2, PointerParts DEF Mapped
    <3>3. Agree(i)' => attached' # attached
      BY <1>4, <3>1, <3>2 DEF Agree
    <3> QED
      BY <1>2, <1>6, <3>1, <3>3 DEF Fits, Ample
  <2> QED
    BY <2>1, <2>2
<1>9. SizesKnown' /\ SizedSoFar' /\ ShotProceeds' /\ CountTrue'
  BY <1>1 DEF SizesKnown, Configuring, SizedSoFar, ShotProceeds, CountTrue
<1>10. TurnKept'
  <2>1. nextwbuf < numbufs => nextwbuf' < numbufs'
    BY <1>1, <1>2
  <2> QED
    BY <1>1, <2>1 DEF TransfersInv, TurnKept
<1> QED
  BY <1>7, <1>8, <1>9, <1>10 DEF TransfersInv

(* The calls between configurations that change the mode or end the ring.   *)
LEMMA ApplicationKept ==
  ASSUME TransfersInv, RingInv', HeldBlocks', [RingStep]_vars, Application PROVE TransfersInv'
<1>1. /\ Detach /\ shot = "none" /\ pc = "idle"
      /\ UNCHANGED <<header, before, full, size, nextwbuf, handed, shot, result, moved, late,
                     timeouts, timecount>>
  BY Zenon DEF Application, Between, layout, turn, single, board
<1>2. /\ pc' \in {"idle", "closed"}
      /\ ~configured' \/ UNCHANGED <<configured, numbufs, drvbufs, promised>>
      /\ Disable \/ (UNCHANGED <<ring, attached>>)
         \/ (UNCHANGED ring /\ attached' = [i \in Slots |-> Null])
  <2>1. CASE \E on \in Modes : SetMmap(on)
    BY <1>1, <2>1, Zenon DEF SetMmap, device, driver, history
  <2>2. CASE CallDisable \/ CloseConfigured
    BY <1>1, <2>2, Zenon DEF CallDisable, CloseConfigured, Disable
  <2>3. CASE CloseOther
    BY <2>3, Zenon DEF CloseOther, device
  <2> QED
    BY <2>1, <2>2, <2>3, Zenon DEF Application
<1>3. \A i \in Slots : /\ ring'[i] = ring[i] \/ ring'[i] = Null
                       /\ attached'[i] = attached[i] \/ attached'[i] = Null
  BY <1>2, DisableForgets DEF TransfersInv
<1>4. MoreType'
  BY <1>1, DetachTyped DEF TransfersInv, MoreType
<1>5. AllFit'
  <2>1. \A i \in Slots : Fits(i)'
    BY <1>1, <1>3, DetachFits DEF TransfersInv
  <2> QED
    BY <2>1 DEF AllFit, Fits
<1>6. SizesKnown' /\ SizedSoFar' /\ ShotProceeds' /\ CountTrue'
  BY <1>1, <1>2 DEF SizesKnown, Configuring, SizedSoFar, ShotProceeds, CountTrue
<1>7. TurnKept'
  BY <1>1, <1>2 DEF TransfersInv, TurnKept
<1> QED
  BY <1>4, <1>5, <1>6, <1>7 DEF TransfersInv

(* A buffer is set to no more than was allocated for it.                    *)
LEMMA SetSizeKept ==
  ASSUME TransfersInv, RingInv', HeldBlocks', NEW i \in Slots, NEW s \in Sizes,
         edt_set_buffer_size(i, s)
  PROVE  TransfersInv'
<1>1. /\ UNCHANGED <<header, before, full, size, allocated, room, headed, nextwbuf, handed,
                     shot, result, moved, late, timeouts, timecount>>
      /\ UNCHANGED <<numbufs, configured, base, ring, attached, drvbufs, memory, pc, promised>>
      /\ shot = "none" /\ pc = "idle" /\ s <= allocated[i]
      /\ drvsize' = [drvsize EXCEPT ![i] = s]
  BY Zenon
  DEF edt_set_buffer_size, Between, layout, turn, single, board, vars, device, driver, blocks, history
<1>2. /\ drvsize \in [Slots -> Nat] /\ allocated \in [Slots -> Nat] /\ room \in [Slots -> Int]
      /\ s \in Nat
  BY TransfersAssumption DEF TransfersInv, MoreType
<1>3. \A j \in Slots : drvsize'[j] = IF j = i THEN s ELSE drvsize[j]
  BY <1>1, <1>2
<1>4. MoreType'
  <2>1. drvsize' \in [Slots -> Nat]
    BY <1>1, <1>2
  <2> QED
    BY <1>1, <2>1 DEF TransfersInv, MoreType
<1>5. AllFit'
  <2> SUFFICES ASSUME NEW j \in Slots, ring[j].block \in Blocks
               PROVE  Ample(j)' /\ (Agree(j)' => drvsize'[j] <= room'[j] \/ j \in headed')
    BY <1>1 DEF AllFit
  <2>1. Ample(j) /\ (Agree(j) => drvsize[j] <= room[j] \/ j \in headed)
    BY DEF TransfersInv, AllFit
  <2>2. Ample(j)' /\ (Agree(j)' => Agree(j))
    BY <1>1, <2>1 DEF Ample, Agree, Mapped
  <2>3. CASE j = i
    BY <1>1, <1>2, <1>3, <2>1, <2>2, <2>3 DEF Ample
  <2>4. CASE j # i
    BY <1>1, <1>3, <2>1, <2>2, <2>4
  <2> QED
    BY <2>3, <2>4
<1>6. SizesKnown' /\ SizedSoFar' /\ ShotProceeds' /\ CountTrue'
  BY <1>1 DEF SizesKnown, Configuring, SizedSoFar, ShotProceeds, CountTrue
<1>7. TurnKept'
  BY <1>1 DEF TransfersInv, TurnKept
<1> QED
  BY <1>4, <1>5, <1>6, <1>7 DEF TransfersInv

(* A turn that is taken, or set, goes on with the buffer the driver goes on *)
(* with.                                                                    *)
LEMMA TurnTaken ==
  ASSUME TransfersInv, RingInv', HeldBlocks',
         edt_next_writebuf \/ \E n \in 0 .. MaxHanded : edt_set_buffer(n)
  PROVE  TransfersInv'
<1>1. /\ UNCHANGED <<header, before, full, size, allocated, room, headed, drvsize,
                     shot, result, moved, late, timeouts, timecount>>
      /\ UNCHANGED <<numbufs, configured, ring, attached, drvbufs, memory, pc, promised>>
      /\ shot = "none" /\ pc = "idle"
  BY Zenon
  DEF edt_next_writebuf, edt_set_buffer, Between, layout, extent, single, board,
      vars, device, driver, blocks, history
<1>2. /\ nextwbuf \in Nat /\ handed \in Nat \cup {Lost} /\ numbufs \in Nat /\ promised \in Nat
      /\ configured => drvbufs = numbufs /\ promised <= numbufs /\ promised > 0
      /\ promised > 0 => configured
  BY RingConfigAssumption DEF TransfersInv, MoreType, RingInv, TypeOK, Usable, TurnKept
<1>3. Lost = -1
  BY DEF Lost
<1>4. /\ nextwbuf' \in Nat /\ handed' \in Nat \cup {Lost}
      /\ configured => nextwbuf' < numbufs /\ (handed' # Lost => nextwbuf' = handed' % numbufs)
  <2>1. CASE edt_next_writebuf
    <3>1. /\ configured /\ numbufs \in Nat \ {0} /\ nextwbuf' = (nextwbuf + 1) % numbufs
          /\ handed' = IF handed = Lost THEN Lost ELSE handed + 1
      BY <1>2, <2>1 DEF edt_next_writebuf
    <3>2. nextwbuf' \in 0 .. numbufs - 1
      <4>1. nextwbuf + 1 \in Int
        BY <1>2
      <4> QED
        BY <3>1, <4>1, Division
    <3>3. ASSUME handed # Lost PROVE nextwbuf' = (handed + 1) % numbufs
      <4>1. nextwbuf = handed % numbufs
        BY <1>2, <3>1, <3>3 DEF TransfersInv, TurnKept
      <4>2. handed \in Int
        BY <1>2, <3>3
      <4> QED
        BY <3>1, <4>1, <4>2, RemainderOfNext
    <3> QED
      BY <1>2, <3>1, <3>2, <3>3
  <2>2. ASSUME NEW n \in 0 .. MaxHanded, edt_set_buffer(n)
        PROVE  /\ nextwbuf' \in Nat /\ handed' \in Nat \cup {Lost}
               /\ configured => nextwbuf' < numbufs
                                /\ (handed' # Lost => nextwbuf' = handed' % numbufs)
    <3>1. /\ nextwbuf' = IF numbufs > 0 THEN n % numbufs ELSE nextwbuf
          /\ handed' = IF promised > 0 THEN n ELSE handed
      BY <2>2 DEF edt_set_buffer
    <3>2. n \in Nat
      BY TransfersAssumption
    <3>3. numbufs > 0 => n % numbufs \in 0 .. numbufs - 1
      BY <1>2, <3>2, Division
    <3> QED
      BY <1>2, <3>1, <3>2, <3>3
  <2> QED
    BY <2>1, <2>2
<1>5. MoreType'
  BY <1>1, <1>4 DEF TransfersInv, MoreType
<1>6. AllFit'
  BY <1>1, QuietFits DEF TransfersInv
<1>7. SizesKnown' /\ SizedSoFar' /\ ShotProceeds' /\ CountTrue'
  BY <1>1 DEF SizesKnown, Configuring, SizedSoFar, ShotProceeds, CountTrue
<1>8. TurnKept'
  BY <1>1, <1>2, <1>4 DEF TurnKept
<1> QED
  BY <1>5, <1>6, <1>7, <1>8 DEF TransfersInv

(* A single transfer, from the end of its configuration to its count.       *)
LEMMA ShotQuiet ==
  ASSUME TransfersInv, RingInv', HeldBlocks', pc = "idle", size' \in Nat, moved' \in Nat, timeouts' \in Nat,
         UNCHANGED <<vars, layout, extent, turn>>, ShotProceeds', CountTrue'
  PROVE  TransfersInv'
<1>1. /\ UNCHANGED <<header, before, full, allocated, room, headed, drvsize, nextwbuf, handed>>
      /\ UNCHANGED <<numbufs, configured, ring, attached, drvbufs, memory, pc, promised>>
  BY Zenon DEF layout, extent, turn, vars, device, driver, blocks, history
<1>2. MoreType'
  BY <1>1 DEF TransfersInv, MoreType
<1>3. AllFit'
  BY <1>1, QuietFits DEF TransfersInv
<1>4. SizesKnown' /\ SizedSoFar' /\ TurnKept'
  BY <1>1 DEF TransfersInv, SizesKnown, Configuring, SizedSoFar, TurnKept
<1> QED
  BY <1>2, <1>3, <1>4 DEF TransfersInv

(* A single transfer goes on.                                               *)
LEMMA ShotKept ==
  ASSUME TransfersInv, RingInv', HeldBlocks', Refused \/ StartShot \/ WaitShot \/ CountShot
  PROVE  TransfersInv'
<1>1. UNCHANGED <<vars, layout, extent, turn>> /\ UNCHANGED <<pc, configured, promised, drvsize, room, rc>>
  BY Zenon DEF Refused, StartShot, WaitShot, CountShot, vars, device, history, call, extent
<1>2. pc = "idle" /\ size \in Nat /\ moved \in Nat /\ timeouts \in Nat
  BY DEF TransfersInv, Refused, StartShot, WaitShot, CountShot, ShotProceeds, Ready, MoreType
<1>3. CASE Refused
  <2>1. shot' = "none" /\ size' = 0 /\ UNCHANGED <<moved, timeouts>>
    BY <1>3, Zenon DEF Refused, board
  <2>2. ShotProceeds' /\ CountTrue'
    BY <2>1 DEF ShotProceeds, CountTrue
  <2> QED
    BY <1>1, <1>2, <2>1, <2>2, ShotQuiet
<1>4. CASE StartShot
  <2>1. /\ shot = "configure" /\ rc = 0 /\ shot' = "wait"
        /\ UNCHANGED <<size, moved, late, timeouts>>
    BY <1>4, Zenon DEF StartShot, board
  <2>2. Ready
    BY <1>2, <2>1 DEF TransfersInv, ShotProceeds, Configuring
  <2>3. ShotProceeds' /\ CountTrue'
    BY <1>1, <2>1, <2>2 DEF ShotProceeds, TransfersInv, CountTrue, Ready
  <2> QED
    BY <1>1, <1>2, <2>1, <2>3, ShotQuiet
<1>5. CASE WaitShot
  <2>1. /\ shot = "wait" /\ shot' = "woken" /\ UNCHANGED size
        /\ \/ moved' = drvsize[0] /\ UNCHANGED <<timeouts, late>>
           \/ /\ moved' \in 0 .. drvsize[0] /\ timeouts' = 1 /\ timecount' = moved'
           \/ moved' \in 0 .. drvsize[0] /\ late' = TRUE /\ UNCHANGED timeouts
    BY <1>5, Zenon DEF WaitShot, board
  <2>2. Ready /\ drvsize[0] = size
    BY <2>1 DEF TransfersInv, ShotProceeds, Ready
  <2>3. moved' \in Nat /\ timeouts' \in Nat
    BY <1>2, <2>1, <2>2
  <2>4. ShotProceeds'
    BY <1>1, <2>1, <2>2 DEF ShotProceeds, Ready
  <2>5. CountTrue'
    <3>1. ~late /\ UNCHANGED <<timeouts, late>> => timeouts' = 0
      BY <2>1 DEF TransfersInv, CountTrue
    <3> QED
      BY <2>1, <2>2, <3>1 DEF CountTrue
  <2> QED
    BY <1>1, <1>2, <2>1, <2>3, <2>4, <2>5, ShotQuiet
<1>6. CASE CountShot
  <2>1. /\ shot = "woken" /\ shot' = "copy" /\ result' = IF timeouts > 0 THEN timecount ELSE size
        /\ UNCHANGED <<size, moved, late, timeouts>>
    BY <1>6, Zenon DEF CountShot, board
  <2>2. Ready
    BY <2>1 DEF TransfersInv, ShotProceeds
  <2>3. ShotProceeds' /\ CountTrue'
    BY <1>1, <2>1, <2>2 DEF ShotProceeds, TransfersInv, CountTrue, Ready
  <2> QED
    BY <1>1, <1>2, <2>1, <2>3, ShotQuiet
<1> QED
  BY <1>3, <1>4, <1>5, <1>6

(* A single transfer ends and its ring is disabled.                         *)
LEMMA EndShotKept ==
  ASSUME TransfersInv, RingInv', HeldBlocks', [RingStep]_vars, EndShot PROVE TransfersInv'
<1>1. /\ Disable /\ Detach /\ shot = "copy" /\ shot' = "none" /\ size' = 0 /\ moved' = 0
      /\ UNCHANGED <<pc, header, before, full, nextwbuf, handed, timeouts, timecount>>
      /\ configured' = FALSE
  BY Zenon DEF EndShot, Disable, layout, turn, board
<1>2. pc = "idle"
  BY <1>1 DEF TransfersInv, ShotProceeds, Ready
<1>3. MoreType'
  BY <1>1, DetachTyped DEF TransfersInv, MoreType
<1>4. AllFit'
  <2>1. \A i \in Slots : Fits(i)'
    BY <1>1, DisableForgets, DetachFits DEF TransfersInv
  <2> QED
    BY <2>1 DEF AllFit, Fits
<1>5. SizesKnown' /\ SizedSoFar' /\ ShotProceeds' /\ CountTrue' /\ TurnKept'
  BY <1>1, <1>2 DEF SizesKnown, Configuring, SizedSoFar, ShotProceeds, CountTrue, TurnKept
<1> QED
  BY <1>3, <1>4, <1>5 DEF TransfersInv

-----------------------------------------------------------------------------
(* An opened device has no ring and has transferred nothing.                *)
LEMMA TransfersInvInit == InitTransfers => TransfersInv
<1> SUFFICES ASSUME InitTransfers PROVE TransfersInv
  OBVIOUS
<1>1. RingInv
  BY RingInvInit DEF InitTransfers
<1>2. /\ pc = "idle" /\ configured = FALSE /\ shot = "none"
      /\ ring = [i \in Slots |-> Null] /\ attached = [i \in Slots |-> Null]
  BY Zenon DEF InitTransfers, Init
<1>3. None \notin Blocks
  BY RingConfigAssumption DEF None, Blocks
<1>4. \A i \in Slots : ring[i].block \notin Blocks /\ attached[i].block \notin Blocks
  BY <1>2, <1>3, PointerParts
<1>5. MoreType
  BY DEF InitTransfers, MoreType
<1>6. HeldBlocks /\ AllFit
  BY <1>2, <1>4 DEF HeldBlocks, AllFit
<1>7. SizesKnown /\ SizedSoFar /\ ShotProceeds /\ CountTrue /\ TurnKept
  BY <1>2 DEF SizesKnown, Configuring, SizedSoFar, ShotProceeds, CountTrue, TurnKept
<1> QED
  BY <1>1, <1>5, <1>6, <1>7 DEF TransfersInv

(* Every call keeps the invariant.                                          *)
LEMMA TransfersInvStep ==
  ASSUME TransfersInv, ~ModeWhileMapped, [NextTransfers]_<<vars, more>> PROVE TransfersInv'
<1>1. [RingStep]_vars
  BY StepsOfTheRing
<1>2. RingInv' /\ HeldBlocks'
  BY <1>1, RingInvStep, HeldStep DEF TransfersInv
<1>3. ASSUME NEW n \in Numbers, NEW h \in Hows, NEW s \in Sizes, Configure(n, h, s)
      PROVE  TransfersInv'
  BY <1>2, <1>3, ConfigureKept
<1>4. CASE Number
  BY <1>2, <1>4, NumberKept
<1>5. CASE Memory
  <2>1. /\ \/ DisableOld \/ FreeBase \/ Allocate \/ AllocateFails \/ MapFails
           \/ Finish \/ Map
        /\ Detach /\ KeepSize /\ UNCHANGED <<layout, turn, single, board>>
    BY <1>5, Zenon DEF Memory
  <2> QED
    BY <1>1, <1>2, <2>1, MemoryKept, CompletedKept
<1>6. CASE SizeBuffer
  BY <1>1, <1>2, <1>6, SizeBufferKept
<1>7. ASSUME NEW mine \in BOOLEAN, NEW s \in Sizes, AddBuffer(mine, s) PROVE TransfersInv'
  BY <1>1, <1>2, <1>7, AddBufferKept
<1>8. CASE Application
  BY <1>1, <1>2, <1>8, ApplicationKept
<1>9. ASSUME NEW i \in Slots, NEW s \in Sizes, edt_set_buffer_size(i, s) PROVE TransfersInv'
  BY <1>2, <1>9, SetSizeKept
<1>10. CASE edt_next_writebuf \/ \E n \in 0 .. MaxHanded : edt_set_buffer(n)
  BY <1>2, <1>10, TurnTaken
<1>11. ASSUME NEW s \in Sizes, Shoot(s) PROVE TransfersInv'
  BY <1>2, <1>11, ShootKept
<1>12. CASE Refused \/ StartShot \/ WaitShot \/ CountShot
  BY <1>2, <1>12, ShotKept
<1>13. CASE EndShot
  BY <1>1, <1>2, <1>13, EndShotKept
<1>14. CASE UNCHANGED <<vars, more>>
  <2>1. /\ UNCHANGED <<header, before, full, size, allocated, room, headed, drvsize, nextwbuf, handed,
                       shot, result, moved, late, timeouts, timecount>>
        /\ UNCHANGED <<numbufs, configured, ring, attached, drvbufs, memory, pc, promised, want, how,
                       index, rc>>
    BY <1>14, Zenon
    DEF more, layout, extent, turn, single, board, vars, device, driver, blocks, history, call
  <2>2. MoreType' /\ AllFit'
    BY <2>1, QuietFits DEF TransfersInv, MoreType
  <2>3. SizesKnown' /\ SizedSoFar' /\ TurnKept' /\ ShotProceeds' /\ CountTrue'
    BY <2>1 DEF TransfersInv, SizesKnown, Configuring, SizedSoFar, TurnKept, ShotProceeds, Ready,
                CountTrue, Ample
  <2> QED
    BY <1>2, <2>2, <2>3 DEF TransfersInv
<1> QED
  BY <1>3, <1>4, <1>5, <1>6, <1>7, <1>8, <1>9, <1>10, <1>11, <1>12, <1>13, <1>14, Zenon
  DEF NextTransfers

(* The inductive invariant.                                                 *)
LEMMA TransfersInvAlways == ASSUME ~ModeWhileMapped PROVE SpecTransfers => []TransfersInv
<1>1. TransfersInv /\ [NextTransfers]_<<vars, more>> => TransfersInv'
  BY TransfersInvStep
<1> QED
  BY <1>1, TransfersInvInit, PTL DEF SpecTransfers

(* edt_read and edt_write count what this transfer has moved, through       *)
(* memory that is there and large enough, unless an earlier timeout or a    *)
(* wake-up is in the way.                                                   *)
THEOREM TransfersExact == ASSUME ~ModeWhileMapped PROVE SpecTransfers => []TransferExact
<1>1. TransfersInv => TransferExact
  <2> SUFFICES ASSUME TransfersInv, shot = "copy"
               PROVE  Live(ring[0]) /\ size <= room[0] /\ (~late => result = moved)
    BY DEF TransferExact
  <2>1. Ready /\ (~late => result = moved)
    BY DEF TransfersInv, ShotProceeds, CountTrue
  <2>2. Live(ring[0])
    BY <2>1, PromisedLive DEF TransfersInv, Ready
  <2> QED
    BY <2>1, <2>2 DEF Ready
<1> QED
  BY <1>1, TransfersInvAlways, PTL

(* Buffers are handed out for output in the order the driver sends them.    *)
THEOREM OutputInTurn == ASSUME ~ModeWhileMapped PROVE SpecTransfers => []NextBufferInTurn
<1>1. TransfersInv => NextBufferInTurn
  <2> SUFFICES ASSUME TransfersInv, promised > 0
               PROVE  /\ nextwbuf < numbufs
                      /\ handed # Lost => nextwbuf = handed % drvbufs
                      /\ nextwbuf < promised => Live(ring[nextwbuf])
    BY DEF NextBufferInTurn
  <2>1. configured /\ nextwbuf \in Nat /\ promised \in Nat
    BY RingConfigAssumption DEF TransfersInv, RingInv, Usable, TypeOK, MoreType
  <2>2. nextwbuf < promised => Live(ring[nextwbuf])
    BY <2>1, PromisedLive DEF TransfersInv
  <2> QED
    BY <2>1, <2>2 DEF TransfersInv, TurnKept
<1> QED
  BY <1>1, TransfersInvAlways, PTL

(* The driver never transfers beyond a buffer of the library's, whatever    *)
(* sizes, headers, failures and buffers came before, but for the header     *)
(* that may be before it in its slot.                                       *)
THEOREM SizesAlwaysFit == ASSUME ~ModeWhileMapped PROVE SpecTransfers => []SizesFit
<1>1. TransfersInv => SizesFit
  <2> SUFFICES ASSUME TransfersInv, NEW i \in 0 .. numbufs - 1, ring[i].block \in Blocks, Agree(i)
               PROVE  drvsize[i] <= room[i] \/ i \in headed
    BY DEF SizesFit, Agree
  <2>1. i \in Slots
    BY RingConfigAssumption DEF TransfersInv, RingInv, TypeOK, Slots
  <2> QED
    BY <2>1 DEF TransfersInv, AllFit
<1> QED
  BY <1>1, TransfersInvAlways, PTL

(* An application that transfers, sets sizes and takes turns does nothing   *)
(* to the ring but what the calls of RingConfig do: Transfers implements    *)
(* RingConfig, if that has the ring of one buffer single transfers use.     *)
THEOREM TransfersAreRingCalls ==
  ASSUME ~ModeWhileMapped, 1 \in Numbers PROVE SpecTransfers => Spec
<1>1. ASSUME TransfersInv, [NextTransfers]_<<vars, more>> PROVE [Next]_vars
  <2>1. ASSUME NEW n \in Numbers, NEW h \in Hows, NEW s \in Sizes, Configure(n, h, s) PROVE Next
    BY <2>1, Zenon DEF Configure, Next
  <2>2. ASSUME NEW s \in Sizes, Shoot(s) PROVE Next
    <3>1. "library" \in Hows
      BY DEF Hows
    <3> QED
      BY <2>2, <3>1, Zenon DEF Shoot, Next
  <2>3. CASE Number \/ Memory \/ SizeBuffer
    BY <2>3, Zenon DEF Number, Memory, SizeBuffer, Next, ConfigureStep
  <2>4. ASSUME NEW mine \in BOOLEAN, NEW s \in Sizes, AddBuffer(mine, s) PROVE Next
    BY <2>4, Zenon DEF AddBuffer, Next
  <2>5. CASE Application
    BY <2>5, Zenon DEF Application, Next
  <2>6. CASE EndShot
    <3>1. pc = "idle"
      BY <1>1, <2>6 DEF EndShot, TransfersInv, ShotProceeds, Ready
    <3> QED
      BY <2>6, <3>1, Zenon DEF EndShot, CallDisable, Next
  <2>7. CASE \/ \E i \in Slots, s \in Sizes : edt_set_buffer_size(i, s)
             \/ edt_next_writebuf \/ \E n \in 0 .. MaxHanded : edt_set_buffer(n)
             \/ Refused \/ StartShot \/ WaitShot \/ CountShot \/ UNCHANGED <<vars, more>>
    <3>1. UNCHANGED vars
      BY <2>7, Zenon
      DEF edt_set_buffer_size, edt_next_writebuf, edt_set_buffer, Refused, StartShot, WaitShot,
          CountShot
    <3> QED
      BY <3>1
  <2> QED
    BY <1>1, <2>1, <2>2, <2>3, <2>4, <2>5, <2>6, <2>7, Zenon DEF NextTransfers
<1>2. InitTransfers => Init
  BY DEF InitTransfers
<1> QED
  BY <1>1, <1>2, TransfersInvAlways, PTL DEF Spec, SpecTransfers
=============================================================================
