------------------------- MODULE TriggerSyncProofs --------------------------
(***************************************************************************)
(* Theorems about TriggerSync, for every set of codes and delays, every    *)
(* length of the Channel Access queues and every rounding of FLOOR.        *)
(***************************************************************************)
EXTENDS TriggerSync, TLAPS

(* A monitor queued leaves at most QueueSize of them.                       *)
LEMMA PostType ==
  ASSUME NEW queue \in Seq(Nat), NEW v \in Nat, Len(queue) <= QueueSize
  PROVE  Post(queue, v) \in Seq(Nat) /\ Len(Post(queue, v)) <= QueueSize
BY TriggerSyncAssumption DEF Post

(* FLOOR of a delay is a delay, in units.                                   *)
LEMMA FlooredType == \A d \in Nat : Floored(d) \in Nat
<1> SUFFICES ASSUME NEW d \in Nat PROVE Floored(d) \in Nat
  OBVIOUS
<1>1. d \div 2 \in Nat /\ (d \div 2 \in Lossy => d \div 2 - 1 \in Nat)
  BY TriggerSyncAssumption
<1> QED
  BY <1>1 DEF Floored

(* The delay records keep their types when the camera's delay is processed, *)
(* and when its readback is.                                                *)
LEMMA DriveDelayType ==
  ASSUME TypeOK, NEW d \in Nat, NEW queue \in Seq(Nat), Len(queue) <= QueueSize, DriveDelay(d, queue)
  PROVE  /\ delay' \in Nat /\ delayCalc' \in Nat /\ tdes' \in Nat
         /\ delayQueue' \in Seq(Nat) /\ Len(delayQueue') <= QueueSize
<1>1. Floored(d) \in Nat /\ tdes \in Nat
  BY FlooredType DEF TypeOK
<1>2. delay' \in Nat /\ delayCalc' \in Nat /\ tdes' \in Nat
  BY <1>1 DEF DriveDelay
<1> QED
  BY <1>2, PostType DEF DriveDelay

(* Types after a read back.                                                 *)
LEMMA ReadBackType ==
  ASSUME TypeOK, NEW n \in Nat, NEW queue \in Seq(Nat), Len(queue) <= QueueSize, ReadBack(n, queue)
  PROVE  /\ delay' \in Nat /\ delayCalc' \in Nat /\ tdes' \in Nat /\ delayRbv' \in Nat
         /\ delayQueue' \in Seq(Nat) /\ Len(delayQueue') <= QueueSize
<1>1. 2 * n \in Nat /\ delayRbv' = 2 * n
  BY DEF ReadBack
<1>2. CASE DriveDelay(2 * n, queue)
  BY <1>1, <1>2, DriveDelayType
<1>3. CASE delayQueue' = queue /\ UNCHANGED <<delay, delayCalc, tdes>>
  BY <1>1, <1>3 DEF TypeOK
<1> QED
  BY <1>2, <1>3, Zenon DEF ReadBack

(* The variables keep their types.                                          *)
THEOREM TriggerTypeCorrect == Spec => []TypeOK
<1>1. Init => TypeOK
  BY TriggerSyncAssumption DEF Init, TypeOK
<1>2. TypeOK /\ [Next]_vars => TypeOK'
  <2> SUFFICES ASSUME TypeOK, [Next]_vars PROVE TypeOK'
    OBVIOUS
  <2> USE TriggerSyncAssumption DEF TypeOK, codes, delays, operator
  <2>1. CASE \E v \in Codes : WriteCamCode(v) \/ WriteEvrCode(v)
    BY <2>1 DEF WriteCamCode, WriteEvrCode, MayWrite, PutCode
  <2>2. CASE \E d \in Delays : WriteCamDelay(d)
    <3>1. PICK d \in Delays : WriteCamDelay(d)
      BY <2>2
    <3>2. d \in Nat
      OBVIOUS
    <3>3. /\ delay' \in Nat /\ delayCalc' \in Nat /\ tdes' \in Nat
          /\ delayQueue' \in Seq(Nat) /\ Len(delayQueue') <= QueueSize
      BY <3>1, <3>2, DriveDelayType DEF WriteCamDelay
    <3> QED
      BY <3>1, <3>3 DEF WriteCamDelay, MayWrite
  <2>3. CASE \E n \in Ticks : WriteEvrDelay(n)
    BY <2>3, PostType DEF WriteEvrDelay, MayWrite
  <2>4. CASE EvrReadback
    BY <2>4, PostType DEF EvrReadback
  <2>5. CASE ReadCode
    BY <2>5 DEF ReadCode, Calc, PutCode
  <2>6. CASE ReadDelay
    <3>1. /\ Head(delayQueue) \in Nat /\ Tail(delayQueue) \in Seq(Nat)
          /\ Len(Tail(delayQueue)) <= QueueSize
      <4>1. delayQueue # <<>>
        BY <2>6 DEF ReadDelay
      <4> QED
        BY <4>1
    <3>2. CASE startingUp
      BY <2>6, <3>1, <3>2 DEF ReadDelay
    <3>3. CASE ~startingUp
      BY <2>6, <3>1, <3>3, ReadBackType DEF ReadDelay
    <3> QED
      BY <3>2, <3>3
  <2>7. CASE StartupDone
    BY <2>7, ReadBackType DEF StartupDone
  <2>8. CASE UNCHANGED vars
    BY <2>8 DEF vars
  <2> QED
    BY <2>1, <2>2, <2>3, <2>4, <2>5, <2>6, <2>7, <2>8, Zenon DEF Next, Write
<1> QED
  BY <1>1, <1>2, PTL DEF Spec

-----------------------------------------------------------------------------
(* An operator who waits (Patient) finds at most one code under way: the    *)
(* EVR has not read it back, or the monitor that says so is queued, or both *)
(* sides hold it.                                                           *)
OneCodeUnderWay ==
  /\ tec = wanted
  /\ codeQueue = <<>> \/ (codeQueue = <<tec>> /\ ecRbv = tec)
  /\ codeQueue = <<>> /\ ecRbv = tec /\ ~startingUp => tec = 0 \/ code = tec

(* No write of an event code is undone by an older readback: when all has   *)
(* gone round both sides hold the code written last.                        *)
THEOREM LastWriteWins == ASSUME Patient PROVE Spec => []LastCodeWins
<1>1. Init => OneCodeUnderWay
  BY DEF Init, OneCodeUnderWay
<1>2. TypeOK /\ OneCodeUnderWay /\ [Next]_vars => OneCodeUnderWay'
  <2> SUFFICES ASSUME TypeOK, OneCodeUnderWay, [Next]_vars PROVE OneCodeUnderWay'
    OBVIOUS
  <2>1. CASE \E v \in Codes : WriteCamCode(v) \/ WriteEvrCode(v)
    BY <2>1 DEF WriteCamCode, WriteEvrCode, MayWrite, Quiet, PutCode, OneCodeUnderWay
  <2>2. CASE EvrReadback
    <3>1. codeQueue = <<>> /\ ecRbv # tec
      BY <2>2 DEF EvrReadback, OneCodeUnderWay
    <3>2. Post(<<>>, tec) = <<tec>>
      BY TriggerSyncAssumption DEF Post, TypeOK
    <3> QED
      BY <2>2, <3>1, <3>2 DEF EvrReadback, OneCodeUnderWay, operator
  <2>3. CASE ReadCode
    <3>1. codeQueue = <<tec>> /\ ecRbv = tec
      BY <2>3 DEF ReadCode, OneCodeUnderWay
    <3>2. Head(codeQueue) = tec /\ Tail(codeQueue) = <<>>
      BY <3>1 DEF TypeOK
    <3> QED
      BY <2>3, <3>1, <3>2 DEF ReadCode, Calc, PutCode, OneCodeUnderWay, operator
  <2>4. CASE StartupDone
    BY <2>4 DEF StartupDone, OneCodeUnderWay, operator
  <2>5. CASE UNCHANGED <<startingUp, codes, wanted>>
    BY <2>5 DEF codes, OneCodeUnderWay
  <2>6. CASE (\E d \in Delays : WriteCamDelay(d)) \/ (\E n \in Ticks : WriteEvrDelay(n)) \/ ReadDelay
    BY <2>5, <2>6, Zenon DEF WriteCamDelay, WriteEvrDelay, ReadDelay, operator
  <2>7. CASE UNCHANGED vars
    BY <2>5, <2>7, Zenon DEF vars, operator
  <2> QED
    BY <2>1, <2>2, <2>3, <2>4, <2>6, <2>7, Zenon DEF Next, Write
<1>3. OneCodeUnderWay => LastCodeWins
  BY DEF OneCodeUnderWay, LastCodeWins, Quiet
<1> QED
  BY <1>1, <1>2, <1>3, TriggerTypeCorrect, PTL DEF Spec
=============================================================================
