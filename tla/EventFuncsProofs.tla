-------------------------- MODULE EventFuncsProofs --------------------------
(***************************************************************************)
(* Theorems about EventFuncs, for every number of calls and whether or not *)
(* threads can be created, of an application that lets the thread of a     *)
(* one-shot event end before it calls again (Settled).                     *)
(*                                                                         *)
(* The handler and the call in progress tell where its one thread can be,  *)
(* although neither side locks: that is the inductive invariant.           *)
(***************************************************************************)
EXTENDS EventFuncs, TLAPS

(* Steps of edt_set_event_func before it fills the handler in.              *)
BeforeFill == {"deactivate", "unregister", "join", "remove join", "reset", "fill"}

(* A set call in progress is within the bound, and has a number once it has *)
(* filled the handler in.                                                   *)
Room ==
  /\ op = "set" /\ pc \in BeforeFill => sets < MaxSets
  /\ pc \in {"join", "fill", "register", "create"} => op = "set"
  /\ pc \in {"register", "create"} => sets \in Threads

(* Only the thread of the newest set call can still be joined.              *)
OnlyNewest == \A t \in Threads : Joinable(t) => t = sets

(* The handler names it, but for the step of a one-shot thread that has     *)
(* cleared the handler and keeps its number in tmp.                         *)
Named ==
  \A t \in Threads : Joinable(t) =>
    IF At(t, "restore") THEN tmp[t] = t /\ handler = Cleared ELSE handler.thrdid = t

(* From the join to the creation of the next thread there is none.          *)
NoneBetween == pc \in {"reset", "fill", "register", "create"} => \A t \in Threads : ~Joinable(t)

(* What the created thread will find.                                       *)
Filled ==
  pc \in {"register", "create"} =>
    /\ handler.active /\ handler.owner /\ handler.callback = sets
    /\ handler.continuous = (mode = "continuous")

(* What a running thread finds, and what the application can be at.         *)
Continuous(t) ==
  /\ handler.continuous /\ thread[t] \in {"loop", "wait", "check", "call", "after"}
  /\ \/ handler.active /\ mode = "continuous" /\ pc \in {"idle", "return"} /\ op \in {"none", "set"}
     \/ handler.active /\ pc = "deactivate" /\ (op = "set" \/ mode = "continuous")
     \/ pc \in {"unregister", "remove join"} /\ (op = "set" \/ mode = "continuous")
OneShot(t) ==
  /\ ~handler.continuous /\ mode = "once"
  /\ (handler.active \/ At(t, "restore"))
  /\ pc \in {"idle", "return"} /\ op \in {"none", "set"}
Serving ==
  \A t \in Threads : Running(t) =>
    /\ Continuous(t) \/ OneShot(t)
    /\ At(t, "restore") \/ (handler.callback = sets /\ handler.owner)
    /\ At(t, "call") => func[t] = sets
    /\ alive

Open == pc # "idle" => alive

(* How often the newest callback has run.                                   *)
FiredSoFar ==
  /\ mode = "once" /\ ~(op = "set" /\ pc \in BeforeFill) => fired <= 1
  /\ pc \in {"register", "create"} => fired = 0
  /\ \A t \in Threads : 
       ~handler.continuous /\ thread[t] \in {"loop", "wait", "check", "call"} => fired = 0

(* Where the library will join, there is a thread to join.                  *)
ToJoin ==
  failed \/
  /\ faults = {}
  /\ pc \in {"deactivate", "unregister", "join", "remove join"} => Joinable(handler.thrdid)
  /\ pc \in {"idle", "return"} =>
       /\ handler.thrdid = NoThread \/ Joinable(handler.thrdid)
       /\ handler.active => handler.thrdid # NoThread

HandlerInv ==
  /\ TypeOK /\ Room
  /\ OnlyNewest /\ Named /\ NoneBetween /\ Filled /\ Serving /\ Open /\ FiredSoFar /\ ToJoin

-----------------------------------------------------------------------------
(* Types.                                                                   *)

Steps == {"none", "loop", "wait", "check", "call", "after", "delete", "clear", "restore",
          "exit", "joined"}

(* A step of a thread keeps the types of the threads' variables.            *)
LEMMA GoType ==
  ASSUME TypeOK, NEW t \in Threads, NEW s \in Steps, Go(t, s)
  PROVE  thread' \in [Threads -> Steps]
BY DEF TypeOK, Go, Steps

(* An empty handler is a handler.                                           *)
LEMMA ClearedType == Cleared \in Handlers
BY EventFuncsAssumption DEF Handlers, Cleared, NoFunc, NoThread

(* The thread's steps keep the types.                                       *)
LEMMA ThreadType == ASSUME TypeOK, NEW t \in Threads, ThreadStep(t) PROVE TypeOK'
<1> USE DEF Steps
<1>1. thread' \in [Threads -> Steps]
  <2>1. \A s \in Steps : Go(t, s) => thread' \in [Threads -> Steps]
    BY GoType
  <2> HIDE DEF Steps
  <2>2. {"loop", "wait", "check", "call", "after", "delete", "clear", "restore", "exit"} \subseteq Steps
    BY DEF Steps
  <2> QED
    BY <2>1, <2>2 DEF ThreadStep, Loop, Wake, Check, Callback, After, Delete, Clear, Restore
<1>2. handler' \in Handlers
  <2>2. CASE Restore(t)
    BY <2>2 DEF Restore, TypeOK, Handlers
  <2> QED
    BY <2>2, ClearedType DEF ThreadStep, Loop, Wake, Check, Callback, After, Delete, Clear, TypeOK
<1>3. func' \in [Threads -> 0 .. MaxSets] /\ tmp' \in [Threads -> 0 .. MaxSets]
  <2>1. handler.callback \in 0 .. MaxSets /\ handler.thrdid \in 0 .. MaxSets
    BY DEF TypeOK, Handlers
  <2>2. NoFunc \in 0 .. MaxSets /\ NoThread \in 0 .. MaxSets
    BY EventFuncsAssumption DEF NoFunc, NoThread
  <2>3. func \in [Threads -> 0 .. MaxSets] /\ tmp \in [Threads -> 0 .. MaxSets]
    BY DEF TypeOK
  <2> HIDE DEF Steps
  <2> QED
    BY <2>1, <2>2, <2>3 DEF ThreadStep, Loop, Wake, Check, Callback, After, Delete, Clear, Restore
<1>4. registered' \in BOOLEAN /\ pending' \in BOOLEAN
  BY Zenon DEF ThreadStep, Loop, Wake, Check, Callback, After, Delete, Clear, Restore, TypeOK,
     driver
<1>5. fired' \in 0 .. 2
  <2>1. fired' = fired \/ Callback(t)
    BY Zenon DEF ThreadStep, Loop, Wake, Check, After, Delete, Clear, Restore, history
  <2> QED
    <3>1. fired' = fired \/ fired' = IF func[t] = sets /\ fired < 2 THEN fired + 1 ELSE fired
      BY <2>1, Zenon DEF Callback
    <3>2. fired \in 0 .. 2
      BY Zenon DEF TypeOK
    <3> QED
      BY <3>1, <3>2
<1>6. faults' \subseteq {"freed", "owner", "join"}
  BY DEF ThreadStep, Loop, Wake, Check, Callback, After, Delete, Clear, Restore, TypeOK, history,
     Touch, Fault
<1>7. UNCHANGED <<app, failed>>
  BY Zenon DEF ThreadStep, Loop, Wake, Check, Callback, After, Delete, Clear, Restore, history
<1> QED
  BY <1>1, <1>2, <1>3, <1>4, <1>5, <1>6, <1>7 DEF TypeOK, app

(* The application's steps keep the types.                                  *)
LEMMA CallType == TypeOK /\ Room /\ (Call \/ CallStep) => TypeOK'
<1> SUFFICES ASSUME TypeOK, Room, Call \/ CallStep PROVE TypeOK'
  OBVIOUS
<1> USE EventFuncsAssumption
<1>1. CASE Call
  <2>1. UNCHANGED <<handler, driver, threads, sets, alive, history>>
    BY <1>1, Zenon DEF Call, CallSet, CallRemove, CallClose
  <2>2. pc' \in {"deactivate", "join", "fill", "return"} /\ op' \in {"set", "remove", "close"}
    BY <1>1 DEF Call, CallSet, CallRemove, CallClose
  <2>3. mode' \in {"once", "continuous"}
    BY <1>1 DEF Call, CallSet, CallRemove, CallClose, TypeOK
  <2> QED
    BY <2>1, <2>2, <2>3 DEF TypeOK, driver, threads, history
<1>2. CASE Deactivate \/ Unregister \/ Reset
  <2>1. handler' \in Handlers
    <3>1. CASE Deactivate
      BY <3>1 DEF Deactivate, TypeOK, Handlers
    <3>2. CASE Unregister \/ Reset
      BY <3>2, ClearedType, Zenon DEF Unregister, Reset, TypeOK
    <3> QED
      BY <1>2, <3>1, <3>2
  <2>2. registered' \in BOOLEAN /\ pending' \in BOOLEAN
    BY <1>2, Zenon DEF Deactivate, Unregister, Reset, driver, TypeOK
  <2>3. UNCHANGED <<threads, sets, op, mode, alive, history>>
    BY <1>2, Zenon DEF Deactivate, Unregister, Reset
  <2>4. pc' \in {"unregister", "remove join", "fill", "return"}
    BY <1>2 DEF Deactivate, Unregister, Reset
  <2> QED
    BY <2>1, <2>2, <2>3, <2>4 DEF TypeOK, threads, history
<1>3. CASE Join
  <2>1. thread' \in [Threads -> Steps]
    BY <1>3 DEF Join, Joinable, Go, Steps, TypeOK
  <2>2. pc' \in {"fill", "reset"} /\ faults' \subseteq {"freed", "owner", "join"}
    BY <1>3 DEF Join, TypeOK
  <2>3. UNCHANGED <<handler, driver, func, tmp, sets, op, mode, alive, fired, failed>>
    BY <1>3, Zenon DEF Join
  <2> QED
    BY <2>1, <2>2, <2>3 DEF TypeOK, driver, Steps
<1>4. CASE Fill
  <2>1. sets + 1 \in 0 .. MaxSets
    BY <1>4 DEF Fill, TypeOK, Room, BeforeFill
  <2>2. handler' \in Handlers
    BY <1>4, <2>1 DEF Fill, TypeOK, Handlers
  <2>3. UNCHANGED <<driver, threads, op, mode, alive, failed, faults>>
    BY <1>4, Zenon DEF Fill
  <2> QED
    BY <1>4, <2>1, <2>2, <2>3 DEF Fill, TypeOK, driver, threads
<1>5. CASE Register \/ Create \/ CreateFails \/ Return
  <2>1. handler' \in Handlers
    BY <1>5 DEF Register, Create, CreateFails, Return, TypeOK, Handlers
  <2>2. thread' \in [Threads -> Steps]
    BY <1>5, GoType DEF Register, Create, CreateFails, Return, TypeOK, threads, Room, Steps
  <2>3. registered' \in BOOLEAN /\ alive' \in BOOLEAN /\ failed' \in BOOLEAN
    BY <1>5, Zenon DEF Register, Create, CreateFails, Return, TypeOK, driver, history
  <2>4. UNCHANGED <<pending, func, tmp, sets, mode, fired, faults>>
    BY <1>5, Zenon DEF Register, Create, CreateFails, Return, driver, threads, history
  <2>5. pc' \in {"create", "return", "idle"} /\ op' \in {"none", op}
    BY <1>5 DEF Register, Create, CreateFails, Return
  <2> QED
    BY <2>1, <2>2, <2>3, <2>4, <2>5 DEF TypeOK, Steps
<1> QED
  BY <1>1, <1>2, <1>3, <1>4, <1>5 DEF CallStep

-----------------------------------------------------------------------------
(* The thread's steps.                                                      *)

(* The thread that takes a step is the newest, the only one not joined, and *)
(* can still be joined after it.                                            *)
LEMMA ThreadMoves ==
  ASSUME HandlerInv, NEW t \in Threads, ThreadStep(t)
  PROVE  /\ Running(t) /\ t = sets /\ UNCHANGED app
         /\ \A u \in Threads : u # t => ~Joinable(u) /\ thread'[u] = thread[u]
         /\ Joinable(t)'
<1>1. Running(t)
  BY DEF ThreadStep, Loop, Wake, Check, Callback, After, Delete, Clear, Restore, At, Running
<1>2. Joinable(t)
  BY <1>1 DEF Running, Joinable
<1>3. t = sets /\ \A u \in Threads : u # t => ~Joinable(u)
  BY <1>2, Zenon DEF HandlerInv, OnlyNewest
<1>4. UNCHANGED app
  BY Zenon DEF ThreadStep, Loop, Wake, Check, Callback, After, Delete, Clear, Restore
<1>5. \E s \in {"loop", "wait", "check", "call", "after", "delete", "clear", "restore", "exit"} : Go(t, s)
  BY DEF ThreadStep, Loop, Wake, Check, Callback, After, Delete, Clear, Restore
<1>6. \A u \in Threads : u # t => thread'[u] = thread[u]
  BY <1>5 DEF Go, HandlerInv, TypeOK
<1>7. Joinable(t)'
  BY <1>5 DEF Go, HandlerInv, TypeOK, Joinable
<1> QED
  BY <1>1, <1>3, <1>4, <1>6, <1>7

(* Each of its steps keeps what the handler and the call say of it.         *)
LEMMA ThreadKeeps ==
  ASSUME HandlerInv, NEW t \in Threads, ThreadStep(t)
  PROVE  HandlerInv'
<1>1. /\ Running(t) /\ t = sets /\ UNCHANGED <<sets, pc, op, mode, alive>>
      /\ \A u \in Threads : u # t => ~Joinable(u) /\ ~Joinable(u)'
  BY ThreadMoves DEF app, Joinable
<1>2. Continuous(t) \/ OneShot(t)
  BY <1>1 DEF HandlerInv, Serving
<1>3. TypeOK'
  BY ThreadType DEF HandlerInv
<1>4. Room' /\ OnlyNewest'
  BY <1>1 DEF HandlerInv, Room, OnlyNewest
<1>5. Filled' /\ Open' /\ NoneBetween'
  <2>1. pc \in {"idle", "return", "deactivate", "unregister", "remove join"}
    BY <1>2 DEF Continuous, OneShot
  <2>2. alive
    BY <1>1 DEF HandlerInv, Serving
  <2> QED
    BY <1>1, <2>1, <2>2 DEF Filled, Open, NoneBetween
<1> USE DEF HandlerInv
<1>6. TypeOK /\ thread \in [Threads -> Steps]
  BY DEF TypeOK, Steps
<1>7. Named'
  <2>1. CASE Loop(t)
    BY <1>1, <1>2, <1>6, <2>1 DEF Loop, Go, At, Joinable, Named
  <2>2. CASE Wake(t)
    BY <1>1, <1>2, <1>6, <2>2 DEF Wake, Go, At, Joinable, Named
  <2>3. CASE Check(t)
    BY <1>1, <1>2, <1>6, <2>3 DEF Check, Go, At, Joinable, Named
  <2>4. CASE Callback(t)
    BY <1>1, <1>2, <1>6, <2>4 DEF Callback, Go, At, Joinable, Named
  <2>5. CASE After(t)
    BY <1>1, <1>2, <1>6, <2>5 DEF After, Go, At, Joinable, Named
  <2>6. CASE Delete(t)
    BY <1>1, <1>2, <1>6, <2>6 DEF Delete, Go, At, Joinable, Named
  <2>7. CASE Clear(t)
    BY <1>1, <1>2, <1>6, <2>7 DEF Clear, Go, At, Joinable, Cleared, Named, TypeOK
  <2>8. CASE Restore(t)
    BY <1>1, <1>2, <1>6, <2>8 DEF Restore, Go, At, Joinable, Cleared, Named
  <2> QED
    BY <2>1, <2>2, <2>3, <2>4, <2>5, <2>6, <2>7, <2>8 DEF ThreadStep
<1>8. Serving'
  <2>1. CASE Loop(t)
    BY <1>1, <1>2, <1>6, <2>1 DEF Loop, Go, At, Joinable, Serving, Continuous, OneShot, Running,
       Named
  <2>2. CASE Wake(t)
    BY <1>1, <1>2, <1>6, <2>2 DEF Wake, Go, At, Joinable, Serving, Continuous, OneShot, Running,
       Named
  <2>3. CASE Check(t)
    <3>1. handler.callback = sets /\ alive
      BY <1>1, <2>3 DEF Check, At, Serving
    <3>2. thread'[t] = "call" => func'[t] = sets
      BY <1>1, <1>6, <2>3, <3>1 DEF Check, Go, TypeOK
    <3>3. thread'[t] \in {"call", "after"}
      BY <1>6, <2>3 DEF Check, Go
    <3>4. UNCHANGED <<handler, pc, op, mode, alive, sets>>
      BY <1>1, <2>3, Zenon DEF Check
    <3>5. thread[t] = "check"
      BY <2>3 DEF Check, At
    <3>6. Continuous(t)' \/ OneShot(t)'
      BY <1>2, <3>3, <3>4, <3>5 DEF Continuous, OneShot, At
    <3>7. handler.callback = sets /\ handler.owner
      BY <1>1, <3>5 DEF Serving, At
    <3> QED
      BY <1>1, <3>1, <3>2, <3>4, <3>6, <3>7 DEF At, Joinable, Running, Serving
  <2>4. CASE Callback(t)
    BY <1>1, <1>2, <1>6, <2>4 DEF Callback, Go, At, Joinable, Serving, Continuous, OneShot,
       Running, Named
  <2>5. CASE After(t)
    BY <1>1, <1>2, <1>6, <2>5 DEF After, Go, At, Joinable, Serving, Continuous, OneShot, Running,
       Named
  <2>6. CASE Delete(t)
    BY <1>1, <1>2, <1>6, <2>6 DEF Delete, Go, At, Joinable, Serving, Continuous, OneShot,
       Running, Named
  <2>7. CASE Clear(t)
    BY <1>1, <1>2, <1>6, <2>7 DEF Clear, Go, At, Joinable, Cleared, Serving, Continuous, OneShot,
       Running, Named
  <2>8. CASE Restore(t)
    BY <1>1, <1>2, <1>6, <2>8 DEF Restore, Go, At, Joinable, Cleared, Serving, Continuous,
       OneShot, Running, Named
  <2> QED
    BY <2>1, <2>2, <2>3, <2>4, <2>5, <2>6, <2>7, <2>8 DEF ThreadStep
<1>9. FiredSoFar'
  <2>1. CASE Loop(t)
    BY <1>1, <1>2, <1>6, <2>1 DEF Loop, Go, At, Joinable, FiredSoFar, Serving, Continuous,
       OneShot, Running, BeforeFill
  <2>2. CASE Wake(t)
    BY <1>1, <1>2, <1>6, <2>2 DEF Wake, Go, At, Joinable, FiredSoFar, Serving, Continuous,
       OneShot, Running, BeforeFill, history
  <2>3. CASE Check(t)
    BY <1>1, <1>2, <1>6, <2>3 DEF Check, Go, At, Joinable, FiredSoFar, Serving, Continuous,
       OneShot, Running, BeforeFill
  <2>4. CASE Callback(t)
    <3>1. UNCHANGED handler /\ thread'[t] = "after" /\ thread[t] = "call"
      BY <1>6, <2>4 DEF Callback, Go, At
    <3>2. fired' = fired \/ fired' = IF func[t] = sets /\ fired < 2 THEN fired + 1 ELSE fired
      BY <2>4, Zenon DEF Callback
    <3>3. fired \in 0 .. 2
      BY Zenon DEF TypeOK
    <3>4. fired' \in {fired, fired + 1}
      BY <3>2, <3>3
    <3>5. mode = "once" /\ ~(op = "set" /\ pc \in BeforeFill) => fired' <= 1
      <4>1. CASE Continuous(t)
        <5>1. mode = "once" => op = "set" /\ pc \in BeforeFill
          BY <4>1 DEF Continuous, BeforeFill
        <5> QED
          BY <5>1, Zenon
      <4>2. CASE OneShot(t)
        <5>1. fired = 0
          BY <3>1, <4>2 DEF OneShot, FiredSoFar
        <5> QED
          BY <3>4, <5>1
      <4> QED
        BY <1>2, <4>1, <4>2
    <3>6. pc \notin {"register", "create"}
      BY <1>2 DEF Continuous, OneShot
    <3>7. \A u \in Threads : thread'[u] \notin {"loop", "wait", "check", "call"}
      BY <1>1, <3>1 DEF Joinable
    <3> QED
      BY <1>1, <3>5, <3>6, <3>7 DEF FiredSoFar
  <2>5. CASE After(t)
    BY <1>1, <1>2, <1>6, <2>5 DEF After, Go, At, Joinable, FiredSoFar, Serving, Continuous,
       OneShot, Running, BeforeFill
  <2>6. CASE Delete(t)
    BY <1>1, <1>2, <1>6, <2>6 DEF Delete, Go, At, Joinable, FiredSoFar, Serving, Continuous,
       OneShot, Running, BeforeFill
  <2>7. CASE Clear(t)
    BY <1>1, <1>2, <1>6, <2>7 DEF Clear, Go, At, Joinable, Cleared, FiredSoFar, Serving,
       Continuous, OneShot, Running, BeforeFill
  <2>8. CASE Restore(t)
    BY <1>1, <1>2, <1>6, <2>8 DEF Restore, Go, At, Joinable, Cleared, FiredSoFar, Serving,
       Continuous, OneShot, Running, BeforeFill
  <2> QED
    BY <2>1, <2>2, <2>3, <2>4, <2>5, <2>6, <2>7, <2>8 DEF ThreadStep
<1>10. ToJoin'
  <2>1. UNCHANGED <<pc, failed>>
    BY <1>1, Zenon DEF ThreadStep, Loop, Wake, Check, Callback, After, Delete, Clear, Restore,
       history
  <2>2. faults' = faults
    <3>1. alive /\ (At(t, "delete") => handler.owner)
      BY <1>1, Zenon DEF Serving, At
    <3>2. Fault("freed", ~alive) = faults /\ (At(t, "delete") => Fault("owner", ~handler.owner) = faults)
      BY <3>1 DEF Fault
    <3>3. \/ faults' = faults \/ faults' = Fault("freed", ~alive)
          \/ At(t, "delete") /\ faults' = Fault("owner", ~handler.owner) \cup Fault("freed", ~alive)
      BY Zenon DEF ThreadStep, Loop, Wake, Check, Callback, After, Delete, Clear, Restore,
         history, Touch
    <3> QED
      BY <3>2, <3>3
  <2>3. \A x : Joinable(x)' <=> Joinable(x)
    <3>1. Joinable(t) /\ Joinable(t)'
      BY <1>1, ThreadMoves DEF Joinable, Running
    <3> QED
      BY <1>1, <3>1 DEF Joinable
  <2>4. CASE Clear(t)
    <3>1. pc \in {"idle", "return"}
      BY <1>2, <2>4 DEF Clear, At, Continuous, OneShot
    <3>2. handler' = Cleared
      BY <2>4, Zenon DEF Clear
    <3> QED
      BY <2>1, <2>2, <3>1, <3>2 DEF ToJoin, Cleared
  <2>5. CASE Restore(t)
    <3>1. pc \in {"idle", "return"}
      BY <1>2, <2>5 DEF Restore, At, Continuous, OneShot
    <3>2. handler = Cleared /\ tmp[t] = t
      BY <1>1, <2>5 DEF Restore, At, Named, Joinable, Running
    <3>3. handler'.thrdid = t /\ handler'.active = FALSE
      BY <2>5, <3>2 DEF Restore, Cleared
    <3>4. Joinable(t)'
      BY ThreadMoves
    <3> QED
      BY <2>1, <2>2, <3>1, <3>3, <3>4 DEF ToJoin
  <2>6. CASE UNCHANGED handler
    BY <2>1, <2>2, <2>3, <2>6 DEF ToJoin
  <2> QED
    BY <2>4, <2>5, <2>6, Zenon DEF ThreadStep, Loop, Wake, Check, Callback, After, Delete
<1> QED
  BY <1>3, <1>4, <1>5, <1>7, <1>8, <1>9, <1>10

-----------------------------------------------------------------------------
(* The application's steps.                                                 *)

(* A call begins while no thread runs but that of a continuous function,    *)
(* which is active.                                                         *)
LEMMA CallBegins ==
  ASSUME HandlerInv, Settled, MayCall
  PROVE  \A t \in Threads : Running(t) => Continuous(t) /\ mode = "continuous" /\ handler.active
                                         /\ handler.callback # NoFunc
<1> SUFFICES ASSUME NEW t \in Threads, Running(t)
             PROVE  Continuous(t) /\ mode = "continuous" /\ handler.active /\ handler.callback # NoFunc
  OBVIOUS
<1>1. Continuous(t) /\ mode = "continuous" /\ handler.active
  BY DEF HandlerInv, Serving, OneShot, MayCall, Continuous
<1>2. handler.callback = sets
  BY <1>1 DEF HandlerInv, Serving, Continuous, At
<1>3. sets = t
  BY DEF HandlerInv, OnlyNewest, Joinable, Running
<1> QED
  BY <1>1, <1>2, <1>3, EventFuncsAssumption DEF Threads, NoFunc

(* edt_set_event_func begins.                                               *)
LEMMA SetBegins == ASSUME HandlerInv, Settled, NEW m \in Modes, CallSet(m) PROVE HandlerInv'
<1>1. TypeOK'
  BY CallType DEF CallStep, Call, HandlerInv
<1>2. UNCHANGED <<handler, thread, tmp, func, sets, alive, fired, failed, faults>> /\ MayCall /\ sets < MaxSets
  BY Zenon DEF CallSet, threads, history
<1>3. op' = "set" /\ pc = "idle" /\ pc' \in {"deactivate", "join", "fill"}
  BY DEF CallSet, MayCall
<1>4. \A t \in Threads : Running(t) => Continuous(t) /\ pc' = "deactivate" /\ handler.active
  BY CallBegins, <1>2 DEF CallSet
<1>5. pc' = "fill" => \A t \in Threads : ~Joinable(t)
  <2> SUFFICES ASSUME pc' = "fill", NEW t \in Threads, Joinable(t) PROVE FALSE
    OBVIOUS
  <2>1. handler.thrdid = NoThread
    BY DEF CallSet
  <2>2. ~At(t, "restore")
    BY <1>4 DEF At, Running
  <2>3. handler.thrdid = t
    BY <2>2 DEF HandlerInv, Named
  <2> QED
    BY <2>1, <2>3, EventFuncsAssumption DEF Threads, NoThread
<1>6. OnlyNewest' /\ Named' /\ NoneBetween'
  BY <1>2, <1>3, <1>5 DEF HandlerInv, OnlyNewest, Named, NoneBetween, Joinable, At
<1>7. Room' /\ Filled' /\ Open'
  BY <1>2, <1>3 DEF Room, Filled, Open, MayCall
<1>8. Serving'
  BY <1>2, <1>3, <1>4 DEF HandlerInv, Serving, Running, Continuous, At
<1>9. FiredSoFar'
  BY <1>2, <1>3 DEF HandlerInv, FiredSoFar, BeforeFill
<1>10. ToJoin'
  <2>1. pc' = "join" => handler.thrdid # NoThread
    BY DEF CallSet
  <2>2. pc' = "deactivate" => handler.active
    BY DEF CallSet
  <2> QED
    BY <1>2, <1>3, <2>1, <2>2 DEF HandlerInv, ToJoin, Joinable
<1> QED
  BY <1>1, <1>6, <1>7, <1>8, <1>9, <1>10 DEF HandlerInv

(* edt_remove_event_func and edt_close begin.                               *)
LEMMA RemoveBegins == ASSUME HandlerInv, Settled, CallRemove \/ CallClose PROVE HandlerInv'
<1>1. TypeOK'
  BY CallType DEF CallStep, Call, HandlerInv
<1>2. UNCHANGED <<handler, thread, tmp, func, sets, mode, alive, fired, failed, faults>> /\ MayCall
  BY Zenon DEF CallRemove, CallClose, threads, history
<1>3. /\ op' \in {"remove", "close"} /\ pc = "idle"
      /\ pc' = IF handler.active THEN "deactivate" ELSE "return"
  BY DEF CallRemove, CallClose, MayCall
<1>4. \A t \in Threads : Running(t) => Continuous(t) /\ mode = "continuous" /\ handler.active
  BY CallBegins, <1>2
<1>5. OnlyNewest' /\ Named' /\ NoneBetween'
  BY <1>2, <1>3 DEF HandlerInv, OnlyNewest, Named, NoneBetween, Joinable, At
<1>6. Room' /\ Filled' /\ Open'
  BY <1>2, <1>3 DEF Room, Filled, Open, MayCall, BeforeFill
<1>7. Serving'
  BY <1>2, <1>3, <1>4 DEF HandlerInv, Serving, Running, Continuous, At
<1>8. FiredSoFar'
  BY <1>2, <1>3 DEF HandlerInv, FiredSoFar, BeforeFill
<1>9. ToJoin'
  BY <1>2, <1>3 DEF HandlerInv, ToJoin, Joinable
<1> QED
  BY <1>1, <1>5, <1>6, <1>7, <1>8, <1>9 DEF HandlerInv

(* The handler is made inactive and the registration withdrawn.             *)
LEMMA StopKeeps == ASSUME HandlerInv, Deactivate \/ Unregister PROVE HandlerInv'
<1>1. TypeOK'
  BY CallType DEF CallStep, HandlerInv
<1>2. /\ UNCHANGED <<thread, tmp, func, sets, op, mode, alive, fired, failed, faults>>
      /\ handler' \in {handler, [handler EXCEPT !.active = FALSE]}
  BY DEF Deactivate, Unregister, threads, history
<1>3. /\ handler'.thrdid = handler.thrdid /\ handler'.callback = handler.callback
      /\ handler'.continuous = handler.continuous /\ handler'.owner = handler.owner
  <2>1. handler \in Handlers
    BY DEF HandlerInv, TypeOK
  <2>2. CASE handler' = handler
    BY <2>2
  <2>3. CASE handler' = [handler EXCEPT !.active = FALSE]
    BY <2>1, <2>3 DEF Handlers
  <2> QED
    BY <1>2, <2>2, <2>3
<1>4. \/ pc = "deactivate" /\ pc' = "unregister"
      \/ pc = "unregister" /\ pc' = "remove join"
  BY DEF Deactivate, Unregister
<1>5. OnlyNewest' /\ Named' /\ NoneBetween'
  <2>1. \A t \in Threads : ~At(t, "restore")
    BY <1>4 DEF HandlerInv, Serving, Running, At, Continuous, OneShot
  <2> QED
    BY <1>2, <1>3, <1>4, <2>1 DEF HandlerInv, OnlyNewest, Named, NoneBetween, Joinable, At
<1>6. Room' /\ Filled' /\ Open'
  BY <1>2, <1>4 DEF HandlerInv, Room, Filled, Open, BeforeFill
<1>7. Serving'
  BY <1>2, <1>3, <1>4 DEF HandlerInv, Serving, Running, Continuous, OneShot, At
<1>8. FiredSoFar'
  BY <1>2, <1>3, <1>4 DEF HandlerInv, FiredSoFar, BeforeFill
<1>9. ToJoin'
  BY <1>2, <1>3, <1>4 DEF HandlerInv, ToJoin, Joinable
<1> QED
  BY <1>1, <1>5, <1>6, <1>7, <1>8, <1>9 DEF HandlerInv

(* The join leaves no thread.                                               *)
LEMMA JoinKeeps == ASSUME HandlerInv, Join PROVE HandlerInv'
<1>1. TypeOK'
  BY CallType DEF CallStep, HandlerInv
<1>2. /\ UNCHANGED <<handler, sets, op, mode, alive, fired, failed>>
      /\ pc \in {"join", "remove join"} /\ pc' = IF pc = "join" THEN "fill" ELSE "reset"
  BY DEF Join
<1>3. \A t \in Threads : ~Joinable(t)'
  <2> SUFFICES ASSUME NEW t \in Threads PROVE thread'[t] \in {"none", "joined"}
    BY DEF Joinable
  <2>1. CASE Joinable(t)
    <3>1. ~At(t, "restore")
      BY <1>2 DEF HandlerInv, Serving, Running, At, Continuous, OneShot
    <3>2. handler.thrdid = t
      BY <2>1, <3>1 DEF HandlerInv, Named
    <3> QED
      BY <2>1, <3>2 DEF Join, Go, HandlerInv, TypeOK
  <2>2. CASE ~Joinable(t)
    <3>1. thread[t] \in {"none", "joined"}
      BY <2>2 DEF Joinable
    <3>2. thread' = thread \/ Go(handler.thrdid, "joined")
      BY Zenon DEF Join
    <3> QED
      BY <3>1, <3>2 DEF Go, HandlerInv, TypeOK
  <2> QED
    BY <2>1, <2>2
<1>4. OnlyNewest' /\ Named' /\ NoneBetween' /\ Serving'
  BY <1>3 DEF OnlyNewest, Named, NoneBetween, Serving, Running, Joinable
<1>5. Room' /\ Filled' /\ Open'
  BY <1>2 DEF HandlerInv, Room, Filled, Open, BeforeFill
<1>6. FiredSoFar'
  BY <1>2, <1>3 DEF HandlerInv, FiredSoFar, BeforeFill, Joinable
<1>7. ToJoin'
  <2>1. failed \/ (faults = {} /\ Joinable(handler.thrdid))
    <3>1. pc \in {"deactivate", "unregister", "join", "remove join"}
      BY <1>2
    <3> QED
      BY <3>1 DEF HandlerInv, ToJoin
  <2>2. Joinable(handler.thrdid) => faults' = faults
    BY Zenon DEF Join
  <2>3. pc' \in {"fill", "reset"}
    BY <1>2
  <2> QED
    BY <1>2, <2>1, <2>2, <2>3 DEF ToJoin
<1> QED
  BY <1>1, <1>4, <1>5, <1>6, <1>7 DEF HandlerInv

(* The handler is emptied, filled in and registered while no thread exists. *)
LEMMA BetweenKeeps == ASSUME HandlerInv, Reset \/ Fill \/ Register \/ CreateFails PROVE HandlerInv'
<1>1. TypeOK'
  BY CallType DEF CallStep, HandlerInv
<1>2. UNCHANGED <<thread, tmp, func, op, mode, alive, faults>>
  BY Zenon DEF Reset, Fill, Register, CreateFails, threads, history
<1>3. \A t \in Threads : ~Joinable(t)'
  BY <1>2 DEF HandlerInv, NoneBetween, Joinable, Reset, Fill, Register, CreateFails
<1>4. OnlyNewest' /\ Named' /\ NoneBetween' /\ Serving'
  BY <1>3 DEF OnlyNewest, Named, NoneBetween, Serving, Running, Joinable
<1>5. Room'
  <2>1. Fill => sets' \in Threads
    <3>1. Fill => sets < MaxSets /\ sets' = sets + 1
      BY DEF HandlerInv, Room, BeforeFill, Fill
    <3>2. sets \in 0 .. MaxSets
      BY DEF HandlerInv, TypeOK
    <3> QED
      BY <3>1, <3>2, EventFuncsAssumption DEF Threads
  <2> QED
    BY <1>2, <2>1 DEF HandlerInv, Room, BeforeFill, Reset, Fill, Register, CreateFails
<1>6. Filled'
  BY <1>2 DEF HandlerInv, Filled, Reset, Fill, Register, CreateFails
<1>7. Open'
  BY <1>2 DEF HandlerInv, Open, Reset, Fill, Register, CreateFails
<1>8. FiredSoFar'
  <2>1. \A t \in Threads : thread'[t] \notin {"loop", "wait", "check", "call"}
    BY <1>3 DEF Joinable
  <2>2. CASE Reset
    BY <1>2, <2>1, <2>2 DEF HandlerInv, FiredSoFar, BeforeFill, Reset, history
  <2>3. CASE Fill
    BY <2>1, <2>3 DEF FiredSoFar, Fill
  <2>4. CASE Register \/ CreateFails
    BY <1>2, <2>1, <2>4 DEF HandlerInv, FiredSoFar, BeforeFill, Register, CreateFails, history
  <2> QED
    BY <2>2, <2>3, <2>4
<1>9. ToJoin'
  <2>1. CASE Reset
    <3>1. /\ handler'.thrdid = NoThread /\ handler'.active = FALSE
          /\ pc' \in {"fill", "return"} /\ UNCHANGED <<failed, faults>>
      BY <2>1 DEF Reset, Cleared, history
    <3> QED
      BY <3>1 DEF HandlerInv, ToJoin
  <2>2. CASE Fill \/ Register
    BY <1>2, <2>2 DEF HandlerInv, ToJoin, Fill, Register, history
  <2>3. CASE CreateFails
    BY <2>3 DEF ToJoin, CreateFails
  <2> QED
    BY <2>1, <2>2, <2>3
<1> QED
  BY <1>1, <1>4, <1>5, <1>6, <1>7, <1>8, <1>9 DEF HandlerInv

(* pthread_create: the new thread is the only one.                          *)
LEMMA CreateKeeps == ASSUME HandlerInv, Create PROVE HandlerInv'
<1>1. TypeOK'
  BY CallType DEF CallStep, HandlerInv
<1>2. /\ UNCHANGED <<tmp, func, sets, op, mode, alive, fired, failed, faults>>
      /\ pc = "create" /\ pc' = "return"
  BY DEF Create, history
<1>3. sets \in Threads /\ op = "set" /\ alive
  BY <1>2 DEF HandlerInv, Room, Open
<1>4. /\ handler'.thrdid = sets /\ handler'.callback = handler.callback /\ handler'.active = handler.active
      /\ handler'.continuous = handler.continuous /\ handler'.owner = handler.owner
  BY DEF Create, HandlerInv, TypeOK, Handlers
<1>5. handler.active /\ handler.owner /\ handler.callback = sets /\ handler.continuous = (mode = "continuous")
  BY <1>2 DEF HandlerInv, Filled
<1>6. thread'[sets] = "loop" /\ \A t \in Threads : t # sets => ~Joinable(t)'
  <2>1. \A t \in Threads : ~Joinable(t)
    BY <1>2 DEF HandlerInv, NoneBetween
  <2>2. Go(sets, "loop")
    BY DEF Create
  <2> QED
    BY <1>3, <2>1, <2>2 DEF Go, Joinable, HandlerInv, TypeOK
<1>7. OnlyNewest' /\ Named' /\ NoneBetween'
  BY <1>2, <1>4, <1>6 DEF OnlyNewest, Named, NoneBetween, At
<1>8. Room' /\ Filled' /\ Open'
  BY <1>2, <1>3 DEF Room, Filled, Open, BeforeFill
<1>9. Serving'
  <2> SUFFICES ASSUME NEW t \in Threads, Running(t)'
               PROVE  /\ Continuous(t)' \/ OneShot(t)'
                      /\ handler'.callback = sets' /\ handler'.owner
                      /\ ~At(t, "call")' /\ alive'
    BY Zenon DEF Serving
  <2>1. t = sets
    BY <1>6 DEF Joinable, Running
  <2>2. handler'.active /\ handler'.owner /\ handler'.callback = sets
    BY <1>4, <1>5, Zenon
  <2>3. mode \in {"once", "continuous"} 
    BY DEF HandlerInv, TypeOK
  <2>4. Continuous(t)' \/ OneShot(t)'
    BY <1>2, <1>3, <1>4, <1>5, <1>6, <2>1, <2>2, <2>3 DEF Continuous, OneShot
  <2> QED
    BY <1>2, <1>3, <1>6, <2>1, <2>2, <2>4 DEF At
<1>10. FiredSoFar'
  <2>1. fired = 0
    BY <1>2 DEF HandlerInv, FiredSoFar
  <2> QED
    BY <1>2, <2>1 DEF FiredSoFar
<1>11. ToJoin'
  <2>1. Joinable(sets)'
    BY <1>2, <1>3, <1>6 DEF Joinable
  <2>2. failed \/ faults = {}
    BY DEF HandlerInv, ToJoin
  <2>3. sets # NoThread
    BY <1>3, EventFuncsAssumption DEF Threads, NoThread
  <2> QED
    BY <1>2, <1>4, <2>1, <2>2, <2>3 DEF ToJoin
<1> QED
  BY <1>1, <1>7, <1>8, <1>9, <1>10, <1>11 DEF HandlerInv

(* A call returns, and edt_close frees edt_p after the thread's last step.  *)
LEMMA ReturnKeeps == ASSUME HandlerInv, Return PROVE HandlerInv'
<1>1. TypeOK'
  BY CallType DEF CallStep, HandlerInv
<1>2. /\ UNCHANGED <<handler, thread, tmp, func, sets, mode, fired, failed, faults>>
      /\ pc = "return" /\ pc' = "idle" /\ op' = "none" /\ alive' = (op # "close")
  BY DEF Return, threads, history
<1>3. OnlyNewest' /\ Named' /\ NoneBetween'
  BY <1>2 DEF HandlerInv, OnlyNewest, Named, NoneBetween, Joinable, At
<1>4. Room' /\ Filled' /\ Open'
  BY <1>2 DEF Room, Filled, Open, BeforeFill
<1>5. Serving'
  BY <1>2 DEF HandlerInv, Serving, Running, Continuous, OneShot, At
<1>6. FiredSoFar'
  BY <1>2 DEF HandlerInv, FiredSoFar, BeforeFill
<1>7. ToJoin'
  BY <1>2 DEF HandlerInv, ToJoin, Joinable
<1> QED
  BY <1>1, <1>3, <1>4, <1>5, <1>6, <1>7 DEF HandlerInv

-----------------------------------------------------------------------------
(* The theorems.                                                            *)

(* The handler and the call in progress always tell where the one thread of *)
(* the event is.                                                            *)
THEOREM HandlerTellsThread == ASSUME Settled PROVE Spec => []HandlerInv
<1>1. Init => HandlerInv
  <2> SUFFICES ASSUME Init PROVE HandlerInv
    OBVIOUS
  <2>1. TypeOK
    <3>1. handler \in Handlers
      BY ClearedType DEF Init
    <3> QED
      <4>1. /\ registered \in BOOLEAN /\ pending \in BOOLEAN /\ alive \in BOOLEAN /\ failed \in BOOLEAN
            /\ faults \subseteq {"freed", "owner", "join"}
        BY Zenon DEF Init
      <4> QED
        BY <3>1, <4>1, EventFuncsAssumption DEF Init, TypeOK, NoFunc, NoThread
  <2>2. \A t \in Threads : thread[t] = "none"
    BY DEF Init
  <2> QED
    BY <2>1, <2>2 DEF Init, HandlerInv, Room, OnlyNewest, Named, NoneBetween, Filled, Serving, Open,
       FiredSoFar, ToJoin, Joinable, Running, Cleared, NoThread
<1>2. HandlerInv /\ [Next]_vars => HandlerInv'
  <2> SUFFICES ASSUME HandlerInv, [Next]_vars PROVE HandlerInv'
    OBVIOUS
  <2>1. CASE Event \/ UNCHANGED vars
    <3>1. UNCHANGED <<handler, thread, func, tmp, sets, pc, op, mode, alive, fired, failed, faults>>
      BY <2>1, Zenon DEF Event, vars, threads, app, history
    <3>2. registered' \in BOOLEAN /\ pending' \in BOOLEAN
      BY <2>1, Zenon DEF Event, vars, driver, HandlerInv, TypeOK
    <3>3. TypeOK'
      BY <3>1, <3>2 DEF HandlerInv, TypeOK
    <3>4. Room' /\ OnlyNewest' /\ Named' /\ NoneBetween' /\ Filled'
      BY <3>1 DEF HandlerInv, Room, OnlyNewest, Named, NoneBetween, Filled, Joinable, At
    <3>5. Serving' /\ Open' /\ FiredSoFar' /\ ToJoin'
      BY <3>1 DEF HandlerInv, Serving, Open, FiredSoFar, ToJoin, Joinable, Running, Continuous,
         OneShot, At
    <3> QED
      BY <3>3, <3>4, <3>5 DEF HandlerInv
  <2>2. CASE \E t \in Threads : ThreadStep(t)
    BY <2>2, ThreadKeeps
  <2>3. CASE Call
    BY <2>3, SetBegins, RemoveBegins DEF Call
  <2>4. CASE CallStep
    BY <2>4, StopKeeps, JoinKeeps, BetweenKeeps, CreateKeeps, ReturnKeeps DEF CallStep
  <2> QED
    BY <2>1, <2>2, <2>3, <2>4 DEF Next
<1> QED
  BY <1>1, <1>2, PTL DEF Spec

(* The variables keep their types.                                          *)
THEOREM EventTypeCorrect == ASSUME Settled PROVE Spec => []TypeOK
<1>1. HandlerInv => TypeOK
  BY DEF HandlerInv
<1> QED
  BY <1>1, HandlerTellsThread, PTL

(* No two threads of one event exist unjoined: edt_set_event_func waits for *)
(* the thread of an earlier call before it creates the next.                *)
THEOREM OneThread == ASSUME Settled PROVE Spec => []OneThreadPerHandler
<1>1. HandlerInv => OneThreadPerHandler
  BY DEF HandlerInv, OnlyNewest, OneThreadPerHandler
<1> QED
  BY <1>1, HandlerTellsThread, PTL

(* When edt_remove_event_func or edt_close has returned, no callback runs.  *)
THEOREM RemoveStopsCallbacks == ASSUME Settled PROVE Spec => []NoCallbackAfterRemove
<1>1. HandlerInv => NoCallbackAfterRemove
  BY DEF HandlerInv, Serving, Running, At, NoCallbackAfterRemove
<1> QED
  BY <1>1, HandlerTellsThread, PTL

(* A callback set for one event runs once at most.                          *)
THEOREM OnceMeansOnce == ASSUME Settled PROVE Spec => []OnceFiresOnce
<1>1. HandlerInv => OnceFiresOnce
  BY DEF HandlerInv, FiredSoFar, BeforeFill, OnceFiresOnce
<1> QED
  BY <1>1, HandlerTellsThread, PTL

(* While every thread could be created, none uses a freed or cleared        *)
(* handler and the library joins only threads that can be joined.           *)
THEOREM HandlerSafety == ASSUME Settled PROVE Spec => []HandlerUsedSafely
<1>1. HandlerInv => HandlerUsedSafely
  BY DEF HandlerInv, ToJoin, HandlerUsedSafely
<1> QED
  BY <1>1, HandlerTellsThread, PTL
=============================================================================
