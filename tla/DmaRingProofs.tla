---------------------------- MODULE DmaRingProofs ----------------------------
(***************************************************************************)
(* Theorems about DmaRing, for every size of the ring, every set of counts *)
(* and both bounds.                                                        *)
(***************************************************************************)
EXTENDS DmaRing, TLAPS

(* Facts about natural numbers that no prover finds by itself.              *)

(* Division with remainder, and that it is unique.                          *)
LEMMA Division ==
  ASSUME NEW x \in Int, NEW n \in Nat \ {0}
  PROVE  /\ x \div n \in Int /\ x % n \in 0 .. n - 1
         /\ x = n * (x \div n) + (x % n)
BY SMT

(* Two numbers of a window no longer than n have different remainders.      *)
LEMMA WindowRemainders ==
  ASSUME NEW n \in Nat \ {0}, NEW a \in Int, NEW b \in Int, a < b, b - a < n
  PROVE  a % n # b % n
<1>1. /\ a = n * (a \div n) + (a % n) /\ a % n \in 0 .. n - 1 /\ a \div n \in Int
      /\ b = n * (b \div n) + (b % n) /\ b % n \in 0 .. n - 1 /\ b \div n \in Int
  BY Division
<1> SUFFICES ASSUME a % n = b % n PROVE FALSE
  OBVIOUS
<1>2. b - a = n * (b \div n - a \div n)
  BY <1>1, SMT
<1>3. CASE b \div n - a \div n <= 0
  BY <1>1, <1>2, <1>3, SMT
<1>4. CASE b \div n - a \div n >= 1
  BY <1>1, <1>2, <1>4, SMT
<1> QED
  BY <1>1, <1>3, <1>4

-----------------------------------------------------------------------------
(* A remainder is the number of a slot.                                     *)
LEMMA SlotRange == \A n \in Nat : n % NumBufs \in Slots
BY DmaRingAssumption DEF Slots

(* The slot of buffer number n, with 0 wrapping as unsigned.                *)
LEMMA SlotBeforeRange == \A n \in Nat : SlotBefore(n) \in Slots
<1> SUFFICES ASSUME NEW n \in Nat PROVE SlotBefore(n) \in Slots
  OBVIOUS
<1>1. CASE n = 0
  BY <1>1, SlotRange, DmaRingAssumption DEF SlotBefore
<1>2. CASE n # 0
  <2>1. n - 1 \in Nat
    BY <1>2
  <2> QED
    BY <1>2, <2>1, SlotRange DEF SlotBefore
<1> QED
  BY <1>1, <1>2

(* A wait begins blocked on a natural number, or returns at once.           *)
LEMMA BeginWaitType ==
  ASSUME donecount \in Nat, target \in Nat, ret \in Slots \cup {NoSlot},
         NEW n \in Int, donecount + n \in Nat, BeginWait(n)
  PROVE  /\ rpc' \in {"blocked", "returned"} /\ target' \in Nat
         /\ ret' \in Slots \cup {NoSlot}
BY DEF BeginWait

(* What TypeOK needs to be inductive: while a transfer runs there is room   *)
(* for its image within the bound.                                          *)
Room == active => captured < MaxCaptured
TypeInv == TypeOK /\ Room

(* Completing a transfer keeps the types of the driver's variables.         *)
LEMMA CompleteType ==
  ASSUME TypeInv, active, Complete
  PROVE  /\ done' \in Nat /\ captured' \in 0 .. MaxCaptured /\ active' = FALSE
         /\ image' \in [Slots -> Contents]
<1>1. captured \in 0 .. MaxCaptured /\ captured < MaxCaptured /\ done \in Nat
  BY Zenon DEF TypeInv, TypeOK, Room
<1>2. captured + 1 \in 1 .. MaxCaptured /\ captured + 1 \in 0 .. MaxCaptured /\ done + 1 \in Nat
  BY <1>1, DmaRingAssumption
<1>3. captured + 1 \in Contents
  BY <1>2 DEF Contents
<1>4. image \in [Slots -> Contents]
  BY Zenon DEF TypeInv, TypeOK
<1>5. image' = [image EXCEPT ![Slot(done)] = captured + 1]
  BY Zenon DEF Complete
<1>6. image' \in [Slots -> Contents]
  BY <1>3, <1>4, <1>5
<1> QED
  BY <1>2, <1>6, Zenon DEF Complete

(* The steps of the board, and a timeout that completes the transfer, have  *)
(* room left where one is in progress.                                      *)
LEMMA RoomKept == TypeInv /\ [Next]_vars => Room'
<1> SUFFICES ASSUME TypeInv, [Next]_vars, active' PROVE captured' < MaxCaptured
  BY DEF Room
<1>1. CASE BeginDma
  BY <1>1, Zenon DEF BeginDma
<1>2. CASE active /\ UNCHANGED <<active, captured>>
  BY <1>2, Zenon DEF TypeInv, Room
<1>3. CASE UNCHANGED <<active, captured>>
  BY <1>2, <1>3, Zenon
<1>4. CASE EndDma \/ WaitTimeout
  <2>1. CASE active' = FALSE
    BY <2>1, Zenon
  <2>2. CASE ~(active' = FALSE)
    BY <1>4, <2>2, Zenon DEF EndDma, WaitTimeout, Complete
  <2> QED
    BY <2>1, <2>2
<1>5. CASE Cancel \/ CallClose
  BY <1>5, Zenon DEF Cancel, CallClose
<1>6. CASE ReaderCall \/ ReaderStep
  <2>1. UNCHANGED driver
    BY <1>6, Zenon DEF ReaderCall, ReaderStep, CallWait, CallCheck, CallLast, CallNext, LastDelta,
       CheckDone, WaitDone, TakeCount, TestClosed, TakeSlot, UseResult
  <2> QED
    BY <1>3, <2>1, Zenon DEF driver
<1>7. CASE WaitTimeoutOk \/ WaitWakeup
  BY <1>3, <1>7, Zenon DEF WaitTimeoutOk, WaitWakeup, driver
<1>8. CASE (\E n \in Starts : CallStart(n)) \/ CallStop \/ CallReset
  BY <1>3, <1>8, Zenon DEF CallStart, CallStop, CallReset, driver
<1>9. CASE SetBuffer \/ SetCount \/ ClearNumbufs \/ FreeDevice
  BY <1>3, <1>9, Zenon DEF SetBuffer, SetCount, ClearNumbufs, FreeDevice, driver
<1>10. CASE UNCHANGED vars
  BY <1>3, <1>10, Zenon DEF vars, driver
<1> QED
  BY <1>1, <1>4, <1>5, <1>6, <1>7, <1>8, <1>9, <1>10, Zenon
     DEF Next, Board, WaitCutShort, ControlCall, ControlStep

(* The board's steps keep the types.                                        *)
LEMMA BoardType == TypeInv /\ Board => TypeOK'
<1> SUFFICES ASSUME TypeInv, Board PROVE TypeOK'
  OBVIOUS
<1>0. TypeOK
  BY DEF TypeInv
<1>1. CASE BeginDma
  <2>1. image' \in [Slots -> Contents]
    BY <1>0, <1>1 DEF BeginDma, TypeOK, Contents
  <2> QED
    BY <1>0, <1>1, <2>1 DEF BeginDma, TypeOK, library, reader, history, control
<1>2. CASE EndDma
  <2>1. done' \in Nat /\ captured' \in 0 .. MaxCaptured /\ image' \in [Slots -> Contents]
    BY <1>2, CompleteType DEF EndDma
  <2>2. active' \in BOOLEAN
    BY <1>2, CompleteType DEF EndDma
  <2>3. /\ todo' = todo /\ free' = free
        /\ numbufs' = numbufs /\ attached' = attached /\ donecount' = donecount /\ alive' = alive
        /\ rpc' = rpc /\ rcall' = rcall /\ target' = target /\ seen' = seen
        /\ status' = status /\ ret' = ret
        /\ delivered' = delivered /\ interrupted' = interrupted
        /\ cpc' = cpc /\ bufnum' = bufnum /\ faults' = faults
    BY <1>2, Zenon DEF EndDma, library, reader, history, control
  <2> QED
    BY <1>0, <2>1, <2>2, <2>3 DEF TypeOK
<1> QED
  BY <1>1, <1>2 DEF Board

(* The reader's calls keep the types.                                       *)
LEMMA ReaderCallType == TypeOK /\ ReaderCall => TypeOK'
<1> SUFFICES ASSUME TypeOK, ReaderCall PROVE TypeOK'
  OBVIOUS
<1> USE DEF TypeOK, driver, library, history, control
<1>1. CASE \E n \in Counts : CallWait(n)
  <2>1. PICK n \in Counts : CallWait(n)
    BY <1>1
  <2>2. n \in Nat /\ donecount + n \in Nat
    BY DmaRingAssumption
  <2>3. rpc' \in {"blocked", "returned"} /\ target' \in Nat /\ ret' \in Slots \cup {NoSlot}
    BY <2>1, <2>2, BeginWaitType DEF CallWait
  <2> QED
    BY <2>1, <2>2, <2>3 DEF CallWait
<1>2. CASE \E n \in Counts : CallCheck(n)
  BY <1>2, DmaRingAssumption DEF CallCheck
<1>3. CASE CallLast
  BY <1>3 DEF CallLast
<1>4. CASE CallNext
  BY <1>4 DEF CallNext
<1> QED
  BY <1>1, <1>2, <1>3, <1>4 DEF ReaderCall

(* The steps inside the reader's calls keep the types.                      *)
LEMMA ReaderStepType == TypeOK /\ ReaderStep => TypeOK'
<1> SUFFICES ASSUME TypeOK, ReaderStep PROVE TypeOK'
  OBVIOUS
<1> USE DEF TypeOK, driver, library, history, control, Touch
<1>1. CASE LastDelta
  <2>1. PICK n \in {1, seen - donecount} : BeginWait(n) /\ donecount + n \in Nat
    BY <1>1 DEF LastDelta
  <2>2. rpc' \in {"blocked", "returned"} /\ target' \in Nat /\ ret' \in Slots \cup {NoSlot}
    BY <2>1, BeginWaitType
  <2> QED
    BY <1>1, <2>2 DEF LastDelta
<1>2. CASE CheckDone
  <2>1. CASE done >= target
    <3>1. BeginWait(seen)
      BY <1>2, <2>1 DEF CheckDone
    <3>2. rpc' \in {"blocked", "returned"} /\ target' \in Nat /\ ret' \in Slots \cup {NoSlot}
      BY <3>1, BeginWaitType
    <3> QED
      BY <1>2, <3>2 DEF CheckDone
  <2>2. CASE ~(done >= target)
    BY <1>2, <2>2 DEF CheckDone
  <2> QED
    BY <2>1, <2>2
<1>3. CASE WaitDone
  BY <1>3 DEF WaitDone
<1>4. CASE TakeCount
  BY <1>4 DEF TakeCount
<1>5. CASE TestClosed
  BY <1>5 DEF TestClosed
<1>6. CASE TakeSlot
  <2>1. ret' \in Slots \cup {NoSlot}
    BY <1>6, SlotBeforeRange DEF TakeSlot
  <2>2. delivered' \in Int
    BY <1>6 DEF TakeSlot, ImageOf
  <2> QED
    BY <1>6, <2>1, <2>2 DEF TakeSlot
<1>7. CASE UseResult
  BY <1>7 DEF UseResult
<1> QED
  BY <1>1, <1>2, <1>3, <1>4, <1>5, <1>6, <1>7 DEF ReaderStep

(* A wait cut short keeps the types.                                        *)
LEMMA CutShortType == TypeInv /\ WaitCutShort => TypeOK'
<1> SUFFICES ASSUME TypeInv, WaitCutShort PROVE TypeOK'
  OBVIOUS
<1>0. TypeOK
  BY DEF TypeInv
<1>1. CASE WaitTimeout
  <2>1. done' \in Nat /\ captured' \in 0 .. MaxCaptured /\ active' \in BOOLEAN
        /\ image' \in [Slots -> Contents]
    <3>1. CASE active /\ Complete
      BY <3>1, CompleteType
    <3>2. CASE active' = FALSE /\ UNCHANGED <<done, captured, image>>
      BY <1>0, <3>2 DEF TypeOK
    <3> QED
      BY <1>1, <3>1, <3>2 DEF WaitTimeout
  <2> QED
    BY <1>0, <1>1, <2>1, ZenonT(30) DEF WaitTimeout, TypeOK, library, control
<1>2. CASE WaitTimeoutOk
  BY <1>0, <1>2 DEF WaitTimeoutOk, TypeOK, driver, library, control
<1>3. CASE WaitWakeup
  BY <1>0, <1>3 DEF WaitWakeup, TypeOK, driver, library, control
<1> QED
  BY <1>1, <1>2, <1>3 DEF WaitCutShort

(* The controller's calls and steps keep the types.                         *)
LEMMA ControlType == TypeOK /\ (ControlCall \/ ControlStep) => TypeOK'
<1> SUFFICES ASSUME TypeOK, ControlCall \/ ControlStep PROVE TypeOK'
  OBVIOUS
<1> USE DEF TypeOK, driver, library, reader, history, control
<1>1. CASE \E n \in Starts : CallStart(n)
  <2>1. PICK n \in Starts : CallStart(n)
    BY <1>1
  <2>2. n + done \in Nat /\ n + todo \in Nat
    BY DmaRingAssumption
  <2>3. todo' \in Nat /\ free' \in BOOLEAN
    BY <2>1, <2>2 DEF CallStart
  <2> QED
    BY <2>1, <2>3 DEF CallStart
<1>2. CASE CallStop
  <2>1. todo' \in Nat /\ free' \in BOOLEAN
    <3>1. done \in Nat /\ done + 1 \in Nat
      OBVIOUS
    <3> QED
      BY <1>2, <3>1, Zenon DEF CallStop
  <2>2. UNCHANGED <<done, active, image, captured, library, reader, history, control, faults>>
    BY <1>2, Zenon DEF CallStop
  <2> QED
    BY <2>1, <2>2
<1>3. CASE CallReset
  <2>1. bufnum' \in Nat
    BY <1>3, DmaRingAssumption DEF CallReset
  <2> QED
    BY <1>3, <2>1 DEF CallReset
<1>4. CASE CallClose
  BY <1>4 DEF CallClose
<1>5. CASE Cancel
  <2>1. todo' \in Nat /\ cpc' \in {"idle", "set"}
    BY <1>5 DEF Cancel
  <2>2. active' \in BOOLEAN /\ free' \in BOOLEAN
    BY <1>5, Zenon DEF Cancel
  <2> QED
    BY <1>5, <2>1, <2>2, ZenonT(60) DEF Cancel
<1>6. CASE SetBuffer
  BY <1>6 DEF SetBuffer
<1>7. CASE SetCount
  <2>1. donecount' \in Nat /\ bufnum' \in Nat /\ cpc' = "idle" /\ interrupted' \in BOOLEAN
    BY <1>7 DEF SetCount
  <2> QED
    BY <1>7, <2>1, ZenonT(60) DEF SetCount
<1>8. CASE ClearNumbufs
  BY <1>8 DEF ClearNumbufs
<1>9. CASE FreeDevice
  BY <1>9, ZenonT(60) DEF FreeDevice
<1> QED
  BY <1>1, <1>2, <1>3, <1>4, <1>5, <1>6, <1>7, <1>8, <1>9 DEF ControlCall, ControlStep

(* The initial state is well typed.                                         *)
LEMMA TypeInit == Init => TypeInv
<1> SUFFICES ASSUME Init PROVE TypeInv
  OBVIOUS
<1>1. TypeOK
  <2>1. image \in [Slots -> Contents] /\ captured \in 0 .. MaxCaptured
    BY DmaRingAssumption DEF Init, Contents
  <2>2. {done, todo, donecount, target, seen, bufnum} \subseteq Nat /\ delivered \in Int
    BY DEF Init
  <2> QED
    BY <2>1, <2>2, ZenonT(60) DEF Init, TypeOK
<1> QED
  BY <1>1 DEF Init, TypeInv, Room

(* Every variable of the ring keeps its type: buffers hold images the board *)
(* captured, a returned buffer is one of the ring's.                        *)
THEOREM RingTyped == Spec => []TypeInv
<1>1. TypeInv /\ [Next]_vars => TypeInv'
  <2> SUFFICES ASSUME TypeInv, [Next]_vars PROVE TypeOK'
    BY RoomKept DEF TypeInv
  <2>1. TypeOK
    BY DEF TypeInv
  <2>2. CASE UNCHANGED vars
    BY <2>1, <2>2 DEF TypeOK, vars, driver, library, reader, history, control
  <2> QED
    BY <2>1, <2>2, BoardType, ReaderCallType, ReaderStepType, CutShortType, ControlType DEF Next
<1> QED
  BY <1>1, TypeInit, PTL DEF Spec

(* The type invariant the runs check.                                       *)
THEOREM RingTypeCorrect == Spec => []TypeOK
<1>1. TypeInv => TypeOK
  BY DEF TypeInv
<1> QED
  BY <1>1, RingTyped, PTL

-----------------------------------------------------------------------------
(* With calls made by one thread, a call never begins beside another.       *)
LEMMA ExclusiveKept ==
  ASSUME OneThread, StreamInv, [Next]_vars
  PROVE  Exclusive'
<1> USE DEF Exclusive
<1>0. Exclusive
  BY DEF StreamInv
<1>1. CASE Board
  BY <1>0, <1>1, Zenon DEF Board, BeginDma, EndDma, reader, control
<1>2. CASE ReaderCall
  BY <1>2, Zenon DEF ReaderCall, CallWait, CallCheck, CallLast, CallNext, Idle, control
<1>3. CASE ReaderStep
  <2>1. rpc # "idle" /\ cpc' = cpc
    BY <1>3, Zenon DEF ReaderStep, LastDelta, CheckDone, WaitDone, TakeCount, TestClosed, TakeSlot,
       UseResult, control
  <2> QED
    BY <1>0, <2>1
<1>4. CASE WaitCutShort
  <2>1. rpc # "idle" /\ cpc' = cpc
    BY <1>4, Zenon DEF WaitCutShort, WaitTimeout, WaitTimeoutOk, WaitWakeup, control
  <2> QED
    BY <1>0, <2>1
<1>5. CASE ControlCall
  BY <1>5, Zenon DEF ControlCall, CallStart, CallStop, CallReset, CallClose, Controls, reader
<1>6. CASE ControlStep
  <2>1. cpc # "idle" /\ rpc' = rpc
    BY <1>6, Zenon DEF ControlStep, Cancel, SetBuffer, SetCount, ClearNumbufs, FreeDevice, reader
  <2> QED
    BY <1>0, <2>1
<1>7. CASE UNCHANGED vars
  BY <1>0, <1>7, Zenon DEF vars, reader, control
<1> QED
  BY <1>1, <1>2, <1>3, <1>4, <1>5, <1>6, <1>7 DEF Next

(* The parts of the invariant other than Exclusive.                         *)
CountInv == BoardStill /\ CountsMatch /\ CallAhead /\ delivered <= captured

(* A completed transfer moves the count and the images together.            *)
LEMMA BoardCounts ==
  ASSUME TypeInv, StreamInv, Board
  PROVE  CountInv'
<1>0. done \in Nat /\ captured \in Nat /\ donecount \in Nat /\ target \in Nat /\ delivered \in Int
  BY DmaRingAssumption DEF TypeInv, TypeOK
<1> USE DEF StreamInv, CountInv, BoardStill, CountsMatch, CallAhead, ImageOf
<1>1. CASE BeginDma
  BY <1>0, <1>1 DEF BeginDma, library, reader, history, control
<1>2. CASE EndDma
  BY <1>0, <1>2 DEF EndDma, Complete, library, reader, history, control
<1> QED
  BY <1>1, <1>2 DEF Board

(* A call of the reader begins with the counts in order and asks for more   *)
(* than was handed out.                                                     *)
LEMMA ReaderCallCounts ==
  ASSUME OneThread, TypeInv, StreamInv, ReaderCall
  PROVE  CountInv'
<1>0. done \in Nat /\ captured \in Nat /\ donecount \in Nat /\ target \in Nat /\ delivered \in Int
  BY DmaRingAssumption DEF TypeInv, TypeOK
<1> USE DEF StreamInv, CountInv, BoardStill, CountsMatch, CallAhead, ImageOf, driver, library,
           history, control
<1>1. ASSUME NEW n \in Counts, CallWait(n) PROVE CountInv'
  <2>1. n \in Nat \ {0}
    BY DmaRingAssumption
  <2> QED
    BY <1>0, <1>1, <2>1 DEF CallWait, BeginWait
<1>2. ASSUME NEW n \in Counts, CallCheck(n) PROVE CountInv'
  <2>1. n \in Nat \ {0}
    BY DmaRingAssumption
  <2> QED
    BY <1>0, <1>2, <2>1 DEF CallCheck
<1>3. CASE CallLast
  BY <1>0, <1>3 DEF CallLast, Idle, Exclusive
<1>4. CASE CallNext
  BY <1>0, <1>4 DEF CallNext, Idle, Exclusive
<1> QED
  BY <1>1, <1>2, <1>3, <1>4 DEF ReaderCall

(* The reader's steps: the count moves to the target of a wait that was not *)
(* cut short, and the image handed over is that of the count.               *)
LEMMA ReaderStepCounts ==
  ASSUME TypeInv, StreamInv, ReaderStep
  PROVE  CountInv'
<1>0. /\ done \in Nat /\ captured \in Nat /\ donecount \in Nat /\ target \in Nat /\ seen \in Nat
      /\ delivered \in Int
  BY DmaRingAssumption DEF TypeInv, TypeOK
<1>9. rpc # "idle" => cpc = "idle"
  BY DEF StreamInv, Exclusive
<1> USE DEF StreamInv, CountInv, BoardStill, CountsMatch, CallAhead, ImageOf, driver, library,
           history, control
<1>1. CASE LastDelta
  BY <1>0, <1>1, <1>9 DEF LastDelta, BeginWait
<1>2. CASE CheckDone
  BY <1>0, <1>2, <1>9 DEF CheckDone, BeginWait
<1>3. CASE WaitDone
  BY <1>0, <1>3, <1>9 DEF WaitDone
<1>4. CASE TakeCount
  BY <1>0, <1>4, <1>9 DEF TakeCount
<1>5. CASE TestClosed
  BY <1>0, <1>5, <1>9 DEF TestClosed
<1>6. CASE TakeSlot
  BY <1>0, <1>6, <1>9 DEF TakeSlot
<1>7. CASE UseResult
  BY <1>0, <1>7, <1>9 DEF UseResult
<1> QED
  BY <1>1, <1>2, <1>3, <1>4, <1>5, <1>6, <1>7 DEF ReaderStep

(* A wait cut short is remembered, which suspends what is said of counts.   *)
LEMMA CutShortCounts ==
  ASSUME TypeInv, StreamInv, WaitCutShort
  PROVE  CountInv'
<1>0. captured \in Nat /\ delivered \in Int
  BY DmaRingAssumption DEF TypeInv, TypeOK
<1>1. interrupted' = TRUE /\ delivered' = delivered /\ cpc' = cpc /\ cpc = "idle"
  BY DEF WaitCutShort, WaitTimeout, WaitTimeoutOk, WaitWakeup, control, StreamInv, Exclusive
<1>2. captured' \in {captured, captured + 1}
  BY DEF WaitCutShort, WaitTimeout, WaitTimeoutOk, WaitWakeup, driver, Complete
<1> QED
  BY <1>0, <1>1, <1>2 DEF StreamInv, CountInv, BoardStill, CountsMatch, CallAhead

(* A reset moves both counts to one number while the board is still.        *)
LEMMA ControlCounts ==
  ASSUME TypeInv, StreamInv, ControlCall \/ ControlStep
  PROVE  CountInv'
<1>0. /\ done \in Nat /\ captured \in Nat /\ donecount \in Nat /\ target \in Nat /\ seen \in Nat
      /\ delivered \in Int /\ bufnum \in Nat
  BY DmaRingAssumption DEF TypeInv, TypeOK
<1> USE DEF StreamInv, CountInv, BoardStill, CountsMatch, CallAhead, ImageOf, Exclusive, driver,
           library, reader, history, control, Controls
<1>1. ASSUME NEW n \in Starts, CallStart(n) PROVE CountInv'
  BY <1>0, <1>1 DEF CallStart
<1>2. CASE CallStop
  BY <1>0, <1>2 DEF CallStop
<1>3. CASE CallReset
  BY <1>0, <1>3 DEF CallReset
<1>4. CASE CallClose
  BY <1>0, <1>4 DEF CallClose
<1>5. CASE Cancel
  BY <1>0, <1>5 DEF Cancel
<1>6. CASE SetBuffer
  BY <1>0, <1>6 DEF SetBuffer
<1>7. CASE SetCount
  BY <1>0, <1>7 DEF SetCount
<1>8. CASE ClearNumbufs \/ FreeDevice
  BY <1>0, <1>8 DEF ClearNumbufs, FreeDevice
<1> QED
  BY <1>1, <1>2, <1>3, <1>4, <1>5, <1>6, <1>7, <1>8 DEF ControlCall, ControlStep

(* With calls made by one thread, StreamInv always holds.                   *)
THEOREM StreamInvariant ==
  ASSUME OneThread
  PROVE  Spec => []StreamInv
<1>1. Init => StreamInv
  BY DEF Init, StreamInv, Exclusive, BoardStill, CountsMatch, CallAhead, ImageOf
<1>2. TypeInv /\ StreamInv /\ [Next]_vars => StreamInv'
  <2> SUFFICES ASSUME TypeInv, StreamInv, [Next]_vars PROVE CountInv'
    BY ExclusiveKept DEF StreamInv, CountInv
  <2>1. CASE UNCHANGED vars
    BY <2>1 DEF vars, driver, library, reader, history, control, StreamInv, CountInv, BoardStill,
       CountsMatch, CallAhead, ImageOf
  <2> QED
    BY <2>1, BoardCounts, ReaderCallCounts, ReaderStepCounts, CutShortCounts, ControlCounts DEF Next
<1> QED
  BY <1>1, <1>2, RingTyped, PTL DEF Spec

(* Called from one thread, the library never counts a buffer the board has  *)
(* not completed, and a reset leaves both sides with one number.            *)
THEOREM CountsStayTogether ==
  ASSUME OneThread
  PROVE  Spec => []CountsAgree
<1>1. StreamInv => CountsAgree
  BY DEF StreamInv, CountsMatch, BoardStill, CountsAgree
<1> QED
  BY <1>1, StreamInvariant, PTL

(* Called from one thread, the ring implements the abstract stream: every   *)
(* step captures an image, delivers a newer one or is invisible.            *)
THEOREM StreamImplemented ==
  ASSUME OneThread
  PROVE  Spec => ImplementsImageStream
<1>1. Init => Stream!Init
  BY DEF Init, Stream!Init
<1>2. TypeInv /\ StreamInv /\ [Next]_vars => [Stream!Next]_(Stream!vars)
  <2> SUFFICES ASSUME TypeInv, StreamInv, [Next]_vars
               PROVE  Stream!Capture \/ Stream!Deliver \/ UNCHANGED <<captured, delivered>>
    BY DEF Stream!Next, Stream!vars
  <2>0. done \in Nat /\ captured \in Nat /\ donecount \in Nat /\ delivered \in Int
    BY DmaRingAssumption DEF TypeInv, TypeOK
  <2>1. CASE BeginDma
    BY <2>1, Zenon DEF BeginDma, history
  <2>2. CASE EndDma \/ WaitTimeout
    BY <2>2, Zenon DEF EndDma, WaitTimeout, Complete, history, Stream!Capture
  <2>3. CASE ReaderCall
    BY <2>3, Zenon DEF ReaderCall, CallWait, CallCheck, CallLast, CallNext, driver, history
  <2>4. CASE LastDelta \/ CheckDone \/ WaitDone \/ TakeCount \/ TestClosed \/ UseResult
    BY <2>4, Zenon DEF LastDelta, CheckDone, WaitDone, TakeCount, TestClosed, UseResult, driver,
       history
  <2>5. CASE TakeSlot
    <3>1. CASE status = "ok" /\ attached /\ ~interrupted
      <4>1. delivered' = captured - done + donecount /\ captured' = captured
        BY <2>5, <3>1 DEF TakeSlot, ImageOf, driver
      <4>2. delivered < captured - done + donecount
        BY <2>5, <3>1 DEF TakeSlot, StreamInv, CallAhead, ImageOf
      <4>3. donecount <= done
        BY <2>5, <3>1 DEF TakeSlot, StreamInv, Exclusive, CountsMatch
      <4> QED
        BY <2>0, <4>1, <4>2, <4>3 DEF Stream!Deliver
    <3>2. CASE ~(status = "ok" /\ attached /\ ~interrupted)
      BY <2>5, <3>2 DEF TakeSlot, driver
    <3> QED
      BY <3>1, <3>2
  <2>6. CASE WaitTimeoutOk \/ WaitWakeup
    BY <2>6, Zenon DEF WaitTimeoutOk, WaitWakeup, driver
  <2>7. CASE ControlCall
    BY <2>7, Zenon DEF ControlCall, CallStart, CallStop, CallReset, CallClose, driver, history
  <2>8. CASE ControlStep
    BY <2>8, Zenon DEF ControlStep, Cancel, SetBuffer, SetCount, ClearNumbufs, FreeDevice,
       driver, history
  <2>9. CASE UNCHANGED vars
    BY <2>9, Zenon DEF vars, driver, history
  <2> QED
    BY <2>1, <2>2, <2>3, <2>4, <2>5, <2>6, <2>7, <2>8, <2>9
       DEF Next, Board, ReaderStep, WaitCutShort
<1> QED
  BY <1>1, <1>2, RingTyped, StreamInvariant, PTL DEF Spec, ImplementsImageStream, Stream!Spec

-----------------------------------------------------------------------------
(* The images in the buffers.                                               *)

(* Of the buffers numbered from b on, those the board has not come round to *)
(* since hold the image of their number; the one it may be writing is not   *)
(* among them.                                                              *)
Intact(b) ==
  \A n \in b + 1 .. done : n - 1 > done - NumBufs => image[Slot(n - 1)] = ImageOf(n)

(* Numbering began at b, and the library counts from there: what a call     *)
(* waits for is not before it, and a buffer counted is after it.  Which b   *)
(* that is the last reset has decided; nothing in the code keeps it.        *)
NumberedFrom(b) ==
  /\ Intact(b)
  /\ cpc # "count" => b <= donecount
  /\ rpc = "last" => b <= seen
  /\ rpc \in {"blocked", "woken"} => b <= target
  /\ rpc \in {"counted", "index"} /\ rcall = "next" => target = donecount
  /\ ~interrupted =>
       /\ rpc \in {"counted", "index"} => b < donecount
       /\ rpc = "returned" /\ status = "ok" /\ ret # NoSlot =>
            b < donecount /\ ret = Slot(donecount - 1)
ImagesInv == \E b \in 0 .. done : NumberedFrom(b)

(* Steps that leave the buffers, the one being written apart, keep the      *)
(* others intact; so does completing it.                                    *)
LEMMA OtherSlot ==
  ASSUME done \in Nat, NEW n \in Nat, n < done, n > done - NumBufs PROVE Slot(n) # Slot(done)
<1>1. done \in Int /\ n \in Int /\ NumBufs \in Nat \ {0} /\ done - n < NumBufs
  BY DmaRingAssumption
<1>2. n % NumBufs # done % NumBufs
  BY <1>1, WindowRemainders
<1> QED
  BY <1>2 DEF Slot

(* A step that finishes no buffer leaves the images in the others alone.    *)
LEMMA IntactKept ==
  ASSUME TypeInv, NEW b \in 0 .. done, Intact(b), UNCHANGED <<done, captured>>,
         UNCHANGED image \/ image' = [image EXCEPT ![Slot(done)] = Partial]
  PROVE  Intact(b)'
<1> SUFFICES ASSUME NEW n \in b + 1 .. done, n - 1 > done - NumBufs
             PROVE  image'[Slot(n - 1)] = captured - done + n
  BY DEF Intact, ImageOf
<1>1. done \in Nat /\ n \in Nat /\ n - 1 \in Nat /\ n - 1 < done /\ image \in [Slots -> Contents]
  BY DEF TypeInv, TypeOK
<1>2. Slot(n - 1) # Slot(done) /\ Slot(n - 1) \in Slots
  BY <1>1, OtherSlot, SlotRange DEF Slot
<1>3. image[Slot(n - 1)] = captured - done + n
  BY DEF Intact, ImageOf
<1> HIDE DEF Slot
<1> QED
  BY <1>1, <1>2, <1>3

(* A buffer completed holds the newest image, under its number.             *)
LEMMA IntactCompleted ==
  ASSUME TypeInv, NEW b \in 0 .. done, Intact(b), Complete PROVE Intact(b)' /\ b \in 0 .. done'
<1>1. /\ done' = done + 1 /\ captured' = captured + 1
      /\ image' = [image EXCEPT ![Slot(done)] = captured + 1]
  BY DEF Complete
<1>2. /\ done \in Nat /\ captured \in Nat /\ image \in [Slots -> Contents] /\ NumBufs \in Nat \ {0}
  BY DmaRingAssumption DEF TypeInv, TypeOK
<1>3. Slot(done) \in Slots
  BY <1>2, SlotRange DEF Slot
<1>4. ASSUME NEW n \in b + 1 .. done + 1, n - 1 > done + 1 - NumBufs
      PROVE  image'[Slot(n - 1)] = captured - done + n
  <2>1. CASE n = done + 1
    <3>1. Slot(n - 1) = Slot(done)
      BY <1>2, <2>1
    <3> HIDE DEF Slot
    <3> QED
      BY <1>1, <1>2, <1>3, <2>1, <3>1
  <2>2. CASE n # done + 1
    <3>1. n \in b + 1 .. done /\ n - 1 \in Nat /\ n - 1 < done /\ n - 1 > done - NumBufs
      BY <1>2, <1>4, <2>2
    <3>2. Slot(n - 1) # Slot(done) /\ Slot(n - 1) \in Slots
      BY <1>2, <3>1, OtherSlot, SlotRange DEF Slot
    <3>3. image[Slot(n - 1)] = captured - done + n
      BY <3>1 DEF Intact, ImageOf
    <3> HIDE DEF Slot
    <3> QED
      BY <1>1, <1>2, <3>2, <3>3
  <2> QED
    BY <2>1, <2>2
<1> QED
  BY <1>1, <1>2, <1>4 DEF Intact, ImageOf

(* The board's steps.                                                       *)
LEMMA BoardImages ==
  ASSUME TypeInv, NEW b \in 0 .. done, NumberedFrom(b), Board
  PROVE  b \in 0 .. done' /\ NumberedFrom(b)'
<1>1. UNCHANGED <<library, reader, history, control>>
  BY Zenon DEF Board, BeginDma, EndDma
<1>2. b \in 0 .. done' /\ Intact(b)'
  <2>1. CASE BeginDma
    BY <2>1, IntactKept DEF BeginDma, NumberedFrom
  <2>2. CASE EndDma
    BY <2>2, IntactCompleted DEF EndDma, NumberedFrom
  <2> QED
    BY <2>1, <2>2 DEF Board
<1> QED
  BY <1>1, <1>2 DEF NumberedFrom, library, reader, history, control

(* The reader's calls begin with a number that is not before b.             *)
LEMMA ReaderCallImages ==
  ASSUME TypeInv, StreamInv, OneThread, NEW b \in 0 .. done, NumberedFrom(b), ReaderCall
  PROVE  b \in 0 .. done' /\ NumberedFrom(b)'
<1>1. UNCHANGED <<driver, library, history, control>> /\ rpc = "idle" /\ cpc = "idle"
  BY Zenon DEF ReaderCall, CallWait, CallCheck, CallLast, CallNext, Idle
<1>2. UNCHANGED <<done, captured, image, donecount, interrupted, cpc>>
  BY <1>1 DEF driver, library, history, control
<1>3. Intact(b)' /\ b <= donecount
  BY <1>1, <1>2, IntactKept DEF NumberedFrom
<1>4. done \in Nat /\ donecount \in Nat /\ \A n \in Counts : n \in Nat
  BY DmaRingAssumption DEF TypeInv, TypeOK
<1>5. /\ rpc' \in {"last", "check", "blocked", "returned"}
      /\ rpc' = "last" => b <= seen'
      /\ rpc' = "blocked" => b <= target'
      /\ rpc' = "returned" => ret' = NoSlot
  <2>1. ASSUME NEW n \in Counts, CallWait(n) PROVE <1>5
    BY <1>3, <1>4, <2>1 DEF CallWait, BeginWait
  <2>2. ASSUME NEW n \in Counts, CallCheck(n) PROVE <1>5
    BY <2>2 DEF CallCheck
  <2>3. CASE CallLast
    BY <1>4, <2>3 DEF CallLast
  <2>4. CASE CallNext
    BY <1>4, <2>4 DEF CallNext
  <2> QED
    BY <2>1, <2>2, <2>3, <2>4 DEF ReaderCall
<1> QED
  BY <1>2, <1>3, <1>5 DEF NumberedFrom

(* The reader's steps: a buffer counted is after b, and the one returned is *)
(* that of the count.                                                       *)
LEMMA ReaderStepImages ==
  ASSUME TypeInv, StreamInv, NEW b \in 0 .. done, NumberedFrom(b), ReaderStep
  PROVE  b \in 0 .. done' /\ NumberedFrom(b)'
<1>1. UNCHANGED <<driver, control>> /\ rpc # "idle" /\ UNCHANGED interrupted
  BY Zenon DEF ReaderStep, LastDelta, CheckDone, WaitDone, TakeCount, TestClosed, TakeSlot,
     UseResult,
               history
<1>2. UNCHANGED <<done, captured, image, cpc>> /\ cpc = "idle"
  BY <1>1 DEF driver, control, StreamInv, Exclusive
<1>3. Intact(b)' /\ b <= donecount
  BY <1>1, <1>2, IntactKept DEF NumberedFrom
<1>4. done \in Nat /\ donecount \in Nat /\ target \in Nat /\ seen \in Nat
  BY DEF TypeInv, TypeOK
<1>5. CASE LastDelta
  <2>1. /\ UNCHANGED donecount /\ rpc = "last"
        /\ \/ rpc' = "returned" /\ ret' = NoSlot
           \/ rpc' = "blocked" /\ target' = donecount + (IF seen = donecount THEN 1 ELSE seen - donecount)
    BY <1>5, Zenon DEF LastDelta, BeginWait, library
  <2>2. rpc' = "blocked" => b <= target'
    BY <1>3, <1>4, <2>1 DEF NumberedFrom
  <2> QED
    BY <1>1, <1>2, <1>3, <2>1, <2>2 DEF NumberedFrom
<1>6. CASE CheckDone
  <2>1. /\ UNCHANGED donecount
        /\ \/ rpc' = "returned" /\ ret' = NoSlot
           \/ rpc' = "blocked" /\ target' = donecount + seen
    BY <1>6, Zenon DEF CheckDone, BeginWait, library
  <2>2. rpc' = "blocked" => b <= target'
    BY <1>3, <1>4, <2>1
  <2> QED
    BY <1>1, <1>2, <1>3, <2>1, <2>2 DEF NumberedFrom
<1>7. CASE WaitDone
  <2>1. rpc = "blocked" /\ rpc' = "woken" /\ UNCHANGED <<donecount, target>>
    BY <1>7, Zenon DEF WaitDone, library
  <2> QED
    BY <1>1, <1>2, <1>3, <2>1 DEF NumberedFrom
<1>8. CASE TakeCount
  <2>1. /\ rpc = "woken" /\ rpc' = "counted" /\ UNCHANGED <<target, rcall>>
        /\ donecount' = IF rcall = "next" \/ status \in {"ok", "timeout"} THEN target ELSE donecount
    BY <1>8, Zenon DEF TakeCount
  <2>2. b <= donecount' /\ (rcall = "next" => target = donecount')
    BY <1>3, <2>1 DEF NumberedFrom
  <2>3. ~interrupted => b < donecount'
    BY <1>3, <1>4, <2>1 DEF StreamInv, CallAhead
  <2> QED
    BY <1>1, <1>2, <1>3, <2>1, <2>2, <2>3 DEF NumberedFrom
<1>9. CASE TestClosed
  <2>1. /\ rpc = "counted" /\ UNCHANGED <<target, rcall, donecount>>
        /\ (rpc' = "returned" /\ ret' = NoSlot) \/ rpc' = "index"
    BY <1>9, Zenon DEF TestClosed, library
  <2> QED
    BY <1>1, <1>2, <1>3, <2>1 DEF NumberedFrom
<1>10. CASE TakeSlot
  <2>1. /\ rpc = "index" /\ rpc' = "returned" /\ UNCHANGED <<donecount, status>>
        /\ ret' = IF attached THEN SlotBefore(IF rcall = "next" THEN target ELSE donecount) ELSE NoSlot
    BY <1>10, Zenon DEF TakeSlot, library
  <2>2. ret' # NoSlot => ret' = SlotBefore(donecount)
    BY <2>1 DEF NumberedFrom
  <2>3. ~interrupted => b < donecount /\ donecount # 0
    BY <1>4, <2>1 DEF NumberedFrom
  <2>4. ~interrupted /\ ret' # NoSlot => ret' = Slot(donecount - 1)
    BY <2>2, <2>3 DEF SlotBefore, Slot
  <2> HIDE DEF Slot
  <2> QED
    BY <1>1, <1>2, <1>3, <2>1, <2>3, <2>4 DEF NumberedFrom
<1>11. CASE UseResult
  <2>1. rpc' = "idle" /\ UNCHANGED donecount
    BY <1>11, Zenon DEF UseResult, library
  <2> QED
    BY <1>1, <1>2, <1>3, <2>1 DEF NumberedFrom
<1> QED
  BY <1>5, <1>6, <1>7, <1>8, <1>9, <1>10, <1>11 DEF ReaderStep

(* A wait cut short may complete the transfer; the count is in doubt.       *)
LEMMA CutShortImages ==
  ASSUME TypeInv, NEW b \in 0 .. done, NumberedFrom(b), WaitCutShort
  PROVE  b \in 0 .. done' /\ NumberedFrom(b)'
<1>1. /\ UNCHANGED <<donecount, cpc, target>> /\ rpc = "blocked" /\ rpc' = "woken"
      /\ interrupted' = TRUE
      /\ Complete \/ UNCHANGED <<done, captured, image>>
  BY Zenon DEF WaitCutShort, WaitTimeout, WaitTimeoutOk, WaitWakeup, library, control, driver
<1>2. b \in 0 .. done' /\ Intact(b)'
  BY <1>1, IntactKept, IntactCompleted DEF NumberedFrom
<1> QED
  BY <1>1, <1>2 DEF NumberedFrom

(* A reset begins a new numbering; the rest of the controller's steps leave *)
(* the old one.                                                             *)
LEMMA ControlImages ==
  ASSUME TypeInv, StreamInv, OneThread, ImagesInv, ControlCall \/ ControlStep PROVE ImagesInv'
<1>1. PICK b \in 0 .. done : NumberedFrom(b)
  BY DEF ImagesInv
<1>2. UNCHANGED <<image, captured>> /\ rpc = "idle" /\ UNCHANGED rpc
  BY Zenon
  DEF ControlCall, ControlStep, CallStart, CallStop, CallReset, CallClose, Cancel, SetBuffer,
      SetCount, ClearNumbufs, FreeDevice, Controls, StreamInv, Exclusive, driver, reader
<1>3. done \in Nat /\ bufnum \in Nat
  BY DEF TypeInv, TypeOK
<1>4. CASE SetBuffer
  <2>1. PICK k \in Nat : k = bufnum
    BY <1>3
  <2>2. done' = k /\ cpc' = "count" /\ UNCHANGED rpc
    BY <1>2, <1>4, <2>1, Zenon DEF SetBuffer
  <2>3. Intact(k)'
    BY <2>1, <2>2 DEF Intact
  <2>4. NumberedFrom(k)'
    BY <1>2, <2>2, <2>3 DEF NumberedFrom
  <2>5. k \in 0 .. done'
    BY <2>1, <2>2
  <2> QED
    BY <2>4, <2>5 DEF ImagesInv
<1>5. CASE SetCount
  <2>1. donecount' = bufnum /\ cpc = "count" /\ UNCHANGED done
    BY <1>5, Zenon DEF SetCount, driver
  <2>2. b <= bufnum
    BY <1>3, <2>1 DEF StreamInv, BoardStill
  <2>3. Intact(b)'
    BY <1>1, <1>2, <2>1, IntactKept DEF NumberedFrom
  <2>4. NumberedFrom(b)'
    BY <1>2, <2>1, <2>2, <2>3 DEF NumberedFrom
  <2> QED
    BY <2>1, <2>4 DEF ImagesInv
<1>6. CASE ControlCall \/ Cancel \/ ClearNumbufs \/ FreeDevice
  <2>1. UNCHANGED <<done, donecount, interrupted>> /\ cpc # "count"
    BY <1>6, Zenon
    DEF ControlCall, CallStart, CallStop, CallReset, CallClose, Cancel, ClearNumbufs, FreeDevice,
        Controls, driver, library, history
  <2>2. Intact(b)' /\ b <= donecount
    BY <1>1, <1>2, <2>1, IntactKept DEF NumberedFrom
  <2>3. NumberedFrom(b)'
    BY <1>2, <2>1, <2>2 DEF NumberedFrom
  <2> QED
    BY <2>1, <2>3 DEF ImagesInv
<1> QED
  BY <1>4, <1>5, <1>6 DEF ControlStep

(* With calls made by one thread, the images are where their numbers say.   *)
THEOREM ImagesInvariant == ASSUME OneThread PROVE Spec => []ImagesInv
<1>1. Init => ImagesInv
  <2> SUFFICES ASSUME Init PROVE ImagesInv
    OBVIOUS
  <2>1. NumberedFrom(0)
    BY DEF Init, NumberedFrom, Intact
  <2>2. 0 \in 0 .. done
    BY DEF Init
  <2> QED
    BY <2>1, <2>2 DEF ImagesInv
<1>2. TypeInv /\ StreamInv /\ ImagesInv /\ [Next]_vars => ImagesInv'
  <2> SUFFICES ASSUME TypeInv, StreamInv, ImagesInv, [Next]_vars PROVE ImagesInv'
    OBVIOUS
  <2>1. PICK b \in 0 .. done : NumberedFrom(b)
    BY DEF ImagesInv
  <2>2. CASE Board \/ ReaderCall \/ ReaderStep \/ WaitCutShort
    <3>1. b \in 0 .. done' /\ NumberedFrom(b)'
      BY <2>1, <2>2, BoardImages, ReaderCallImages, ReaderStepImages, CutShortImages
    <3> QED
      BY <3>1 DEF ImagesInv
  <2>3. CASE ControlCall \/ ControlStep
    BY <2>3, ControlImages
  <2>4. CASE UNCHANGED vars
    <3>1. UNCHANGED <<done, image, captured, donecount, interrupted, rpc, rcall, target, seen, status,
                      ret, cpc>>
      BY <2>4, Zenon DEF vars, driver, library, reader, history, control
    <3>2. Intact(b)'
      BY <2>1, <3>1, IntactKept DEF NumberedFrom
    <3>3. NumberedFrom(b)'
      BY <2>1, <3>1, <3>2 DEF NumberedFrom
    <3> QED
      BY <3>1, <3>3 DEF ImagesInv
  <2> QED
    BY <2>2, <2>3, <2>4 DEF Next
<1> QED
  BY <1>1, <1>2, RingTyped, StreamInvariant, PTL DEF Spec

(* Called from one thread, a successful call returns a completed buffer,    *)
(* and unless the board has come round the ring to it, the buffer holds the *)
(* image of the number the library now counts.                              *)
THEOREM ReturnedIsCompleted == ASSUME OneThread PROVE Spec => []ReturnsCompletedBuffer
<1>1. TypeInv /\ StreamInv /\ ImagesInv => ReturnsCompletedBuffer
  <2> SUFFICES ASSUME TypeInv, StreamInv, ImagesInv, rpc = "returned", status = "ok", ret # NoSlot,
                      ~interrupted
               PROVE  /\ donecount \in 1 .. done
                      /\ done < donecount + NumBufs - 1 => image[ret] = ImageOf(donecount)
    BY DEF ReturnsCompletedBuffer
  <2>1. PICK b \in 0 .. done : NumberedFrom(b)
    BY DEF ImagesInv
  <2>2. done \in Nat /\ donecount \in Nat /\ NumBufs \in Nat
    BY DmaRingAssumption DEF TypeInv, TypeOK
  <2>3. b < donecount /\ ret = Slot(donecount - 1)
    BY <2>1 DEF NumberedFrom
  <2>4. donecount <= done
    BY DEF StreamInv, Exclusive, CountsMatch
  <2>5. donecount \in b + 1 .. done /\ donecount \in 1 .. done
    BY <2>2, <2>3, <2>4
  <2>6. done < donecount + NumBufs - 1 => image[Slot(donecount - 1)] = ImageOf(donecount)
    BY <2>1, <2>2, <2>5 DEF NumberedFrom, Intact
  <2> QED
    BY <2>3, <2>5, <2>6
<1> QED
  BY <1>1, RingTyped, StreamInvariant, ImagesInvariant, PTL

(* Called from one thread, as long as edt_ring_buffer_overrun says no, all  *)
(* images not yet handed out are intact in their buffers.                   *)
THEOREM NoOverrunNoLoss == ASSUME OneThread PROVE Spec => []OverrunSound
<1>1. TypeInv /\ ImagesInv => OverrunSound
  <2> SUFFICES ASSUME TypeInv, ImagesInv, cpc = "idle", ~Overrun, NEW n \in donecount + 1 .. done
               PROVE  image[Slot(n - 1)] = ImageOf(n)
    BY DEF OverrunSound
  <2>1. PICK b \in 0 .. done : NumberedFrom(b)
    BY DEF ImagesInv
  <2>2. done \in Nat /\ donecount \in Nat /\ numbufs \in {0, NumBufs} /\ NumBufs \in Nat
    BY DmaRingAssumption DEF TypeInv, TypeOK
  <2>3. done < donecount + numbufs
    BY <2>2 DEF Overrun
  <2>4. n \in b + 1 .. done /\ n - 1 > done - NumBufs
    BY <2>1, <2>2, <2>3 DEF NumberedFrom
  <2> QED
    BY <2>1, <2>4 DEF NumberedFrom, Intact
<1> QED
  BY <1>1, RingTyped, ImagesInvariant, PTL
=============================================================================
