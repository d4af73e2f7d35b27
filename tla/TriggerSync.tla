---------------------------- MODULE TriggerSync -----------------------------
(***************************************************************************)
(* The records of edtApp/Db/timeStampEventCode.db that keep the camera's   *)
(* event code and trigger delay and those of its EVR trigger the same,     *)
(* whichever side the operator writes.                                     *)
(*                                                                         *)
(* Event code: CamEventCode -> TEC (EVR) -> EC_RBV -> CamEventCode_RBV     *)
(*             -> CamEventCodeCalc -> CamEventCode.                        *)
(* Delay:      CamTrigDelay -> CamTrigDelayCalc -> TDES (EVR)              *)
(*             -> CamTrigDelay_RBV -> CamTrigDelay.                        *)
(* Forward links (FLNK, OUT .. PP) process at once, in one step with the   *)
(* record they start from; CP links bring a value through Channel Access,  *)
(* later.  The EVR records and Channel Access are external.                *)
(*                                                                         *)
(* Delays are counted in half units of the EVR (1/2 ns with the default    *)
(* scale), so that FLOOR has something to cut off.                         *)
(***************************************************************************)
EXTENDS Integers, Sequences

CONSTANTS Codes,     \* event codes an operator writes
          Delays,    \* camera delays an operator writes, in half units
          Ticks,     \* EVR delays an operator writes, in units
          Lossy,     \* units n for which FLOOR((n / scale) * scale) is n - 1 in doubles
          Patient,   \* TRUE: an operator waits until the last write has gone round
          QueueSize, \* monitors Channel Access queues for a link before it overwrites
          MaxWrites  \* bound: writes of the operators

ASSUME TriggerSyncAssumption ==
  /\ Codes \subseteq Nat /\ Delays \subseteq Nat /\ Ticks \subseteq Nat
  /\ Lossy \subseteq Nat \ {0}
  /\ Patient \in BOOLEAN
  /\ QueueSize \in Nat \ {0} /\ MaxWrites \in Nat

VARIABLES
  startingUp,  \* $(CAM_TRIG):STARTING_UP
  code,        \* CamEventCode
  tec,         \* EVR: trigger event code
  ecRbv,       \* EVR: EC_RBV
  codeQueue,   \* monitors of EC_RBV under way to CamEventCode_RBV
  codeRbv,     \* CamEventCode_RBV
  delay,       \* CamTrigDelay, in half units
  delayCalc,   \* CamTrigDelayCalc
  tdes,        \* EVR: trigger delay, in units
  delayQueue,  \* monitors of TDES under way to CamTrigDelay_RBV
  delayLink,   \* last of them that arrived
  delayRbv,    \* CamTrigDelay_RBV, in half units
  writes,      \* writes so far
  wanted       \* (history) code the operator wrote last, 0 before

codes == <<code, tec, ecRbv, codeQueue, codeRbv>>
delays == <<delay, delayCalc, tdes, delayQueue, delayLink, delayRbv>>
operator == <<writes, wanted>>
vars == <<startingUp, codes, delays, operator>>

Init ==
  /\ startingUp = TRUE
  /\ code = 0 /\ tec = 0 /\ ecRbv = 0 /\ codeQueue = <<>> /\ codeRbv = 0
  /\ delay = 0 /\ delayCalc = 0 /\ tdes = 0 /\ delayQueue = <<>> /\ delayLink = 0 /\ delayRbv = 0
  /\ writes = 0 /\ wanted = 0

(* A monitor is queued; when the queue is full it replaces the newest one.  *)
Post(queue, v) ==
  IF Len(queue) < QueueSize THEN Append(queue, v) ELSE [queue EXCEPT ![QueueSize] = v]

-----------------------------------------------------------------------------
(* Event code.                                                              *)

(* CamEventCode processes with value v; SDIS stops it while the EVR starts. *)
PutCode(v) ==
  /\ code' = v
  /\ tec' = IF startingUp THEN tec ELSE v

(* The EVR takes the trigger code over and posts a monitor on a change.     *)
EvrReadback ==
  /\ ecRbv # tec
  /\ ecRbv' = tec
  /\ codeQueue' = Post(codeQueue, tec)
  /\ UNCHANGED <<startingUp, code, tec, codeRbv, delays, operator>>

CalcKeeps(readback) == PutCode(code)   \* faulty variant: OCAL is A

(* CamEventCodeCalc, A != B && B != 0: the camera follows the readback.     *)
Calc(readback) ==
  IF code # readback /\ readback # 0 THEN PutCode(readback) ELSE UNCHANGED <<code, tec>>

(* Faulty variant: no FLNK to CamEventCodeCalc.                             *)
ReadCodeOnly ==
  /\ codeQueue # <<>>
  /\ codeQueue' = Tail(codeQueue)
  /\ codeRbv' = IF startingUp THEN codeRbv ELSE Head(codeQueue)
  /\ UNCHANGED <<startingUp, code, tec, ecRbv, delays, operator>>

(* A monitor arrives: CamEventCode_RBV and CamEventCodeCalc process, unless *)
(* SDIS stops them.                                                         *)
ReadCode ==
  /\ codeQueue # <<>>
  /\ codeQueue' = Tail(codeQueue)
  /\ IF startingUp
     THEN UNCHANGED <<codeRbv, code, tec>>
     ELSE codeRbv' = Head(codeQueue) /\ Calc(Head(codeQueue))
  /\ UNCHANGED <<startingUp, ecRbv, delays, operator>>

-----------------------------------------------------------------------------
(* Trigger delay.                                                           *)

(* FLOOR(A*B) in doubles.                                                   *)
Floored(d) == IF d % 2 = 0 /\ d \div 2 \in Lossy THEN d \div 2 - 1 ELSE d \div 2

(* CamTrigDelay processes with value d, and after it CamTrigDelayCalc,      *)
(* which drives the EVR on a change of its own value only.                  *)
DriveDelay(d, queue) ==
  /\ delay' = d
  /\ delayCalc' = Floored(d)
  /\ tdes' = IF Floored(d) # delayCalc THEN Floored(d) ELSE tdes
  /\ delayQueue' = IF tdes' # tdes THEN Post(queue, tdes') ELSE queue

(* Faulty variant: CamTrigDelay_RBV has no OUT.                             *)
ReadBackOnly(n, queue) ==
  /\ delayRbv' = 2 * n
  /\ delayQueue' = queue /\ UNCHANGED <<delay, delayCalc, tdes>>

(* CamTrigDelay_RBV processes with the EVR delay n, and on a change of its  *)
(* own value writes CamTrigDelay.                                           *)
ReadBack(n, queue) ==
  /\ delayRbv' = 2 * n
  /\ IF delayRbv' # delayRbv
     THEN DriveDelay(2 * n, queue)
     ELSE delayQueue' = queue /\ UNCHANGED <<delay, delayCalc, tdes>>

ReadDelay ==
  /\ delayQueue # <<>>
  /\ delayLink' = Head(delayQueue)
  /\ IF startingUp
     THEN delayQueue' = Tail(delayQueue) /\ UNCHANGED <<delay, delayCalc, tdes, delayRbv>>
     ELSE ReadBack(Head(delayQueue), Tail(delayQueue))
  /\ UNCHANGED <<startingUp, codes, operator>>

-----------------------------------------------------------------------------
(* The EVR has started: STARTING_UP falls, and both readbacks, whose SDIS   *)
(* is a CP link, process with what their links last received.               *)
StartupDone ==
  /\ startingUp
  /\ codeQueue = <<>> /\ ecRbv = tec
  /\ startingUp' = FALSE
  /\ codeRbv' = ecRbv
  /\ IF code # ecRbv /\ ecRbv # 0 THEN code' = ecRbv ELSE UNCHANGED code
  /\ ReadBack(delayLink, delayQueue)
  /\ UNCHANGED <<tec, ecRbv, codeQueue, delayLink, operator>>

-----------------------------------------------------------------------------
(* Operators.                                                               *)
Quiet == codeQueue = <<>> /\ ecRbv = tec /\ delayQueue = <<>>

MayWrite == writes < MaxWrites /\ (Patient => Quiet) /\ writes' = writes + 1

WriteCamCode(v) ==
  /\ MayWrite
  /\ PutCode(v) /\ wanted' = IF startingUp THEN wanted ELSE v
  /\ UNCHANGED <<startingUp, ecRbv, codeQueue, codeRbv, delays>>

WriteEvrCode(v) ==
  /\ MayWrite
  /\ tec' = v /\ wanted' = v
  /\ UNCHANGED <<startingUp, code, ecRbv, codeQueue, codeRbv, delays>>

WriteCamDelay(d) ==
  /\ MayWrite
  /\ DriveDelay(d, delayQueue)
  /\ UNCHANGED <<startingUp, codes, delayLink, delayRbv, wanted>>

WriteEvrDelay(n) ==
  /\ MayWrite /\ n # tdes
  /\ tdes' = n /\ delayQueue' = Post(delayQueue, n)
  /\ UNCHANGED <<startingUp, codes, delay, delayCalc, delayLink, delayRbv, wanted>>

Write ==
  \/ \E v \in Codes : WriteCamCode(v) \/ WriteEvrCode(v)
  \/ \E d \in Delays : WriteCamDelay(d)
  \/ \E n \in Ticks : WriteEvrDelay(n)

Next == Write \/ EvrReadback \/ ReadCode \/ ReadDelay \/ StartupDone

(* The EVR answers, monitors arrive and start-up ends; nobody has to write. *)
Fairness ==
  WF_vars(EvrReadback) /\ WF_vars(ReadCode) /\ WF_vars(ReadDelay) /\ WF_vars(StartupDone)

Spec == Init /\ [][Next]_vars
FairSpec == Spec /\ Fairness

-----------------------------------------------------------------------------
(* Type of every variable.                                                  *)
TypeOK ==
  /\ startingUp \in BOOLEAN
  /\ {code, tec, ecRbv, codeRbv, wanted} \subseteq Nat
  /\ {delay, delayCalc, tdes, delayLink, delayRbv} \subseteq Nat
  /\ codeQueue \in Seq(Nat) /\ Len(codeQueue) <= QueueSize
  /\ delayQueue \in Seq(Nat) /\ Len(delayQueue) <= QueueSize
  /\ writes \in 0 .. MaxWrites

(* When everything has gone round, both sides hold the code an operator     *)
(* wrote last, whichever side that was: no write is undone by an older      *)
(* readback.                                                                *)
LastCodeWins ==
  Quiet /\ ~startingUp /\ wanted # 0 => code = wanted /\ tec = wanted

(* The camera's delay and the EVR's are the same to one unit.               *)
Close == delay \div 2 \in tdes - 1 .. tdes + 1

(* "CAM PVs for delay and event code stay in sync w/ EVR PVs": once the     *)
(* operators stop writing the two sides come to agree and stay so, with     *)
(* nothing more under way between them.                                     *)
CodesConverge == <>[](~startingUp /\ (tec # 0 => code = tec) /\ ecRbv = tec)
DelaysConverge == <>[](~startingUp /\ Close /\ delayRbv = 2 * tdes /\ delayQueue = <<>>)
=============================================================================
