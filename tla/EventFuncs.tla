----------------------------- MODULE EventFuncs -----------------------------
(***************************************************************************)
(* Event functions of libedt on Linux (the pthread variant in              *)
(* edtApp/lib/libedt.c): edt_set_event_func starts a thread that waits in  *)
(* the driver for an event and runs the application's callback;            *)
(* edt_remove_event_func and edt_close stop it.  The two sides share one   *)
(* EdtEventHandler and take no lock.  One event type is modelled; the      *)
(* application calls the library from one thread.                          *)
(*                                                                         *)
(* The driver is external: a wait ends when the event happens or when the  *)
(* event is not, or no longer, registered, as the join in                  *)
(* edt_remove_event_func needs.                                            *)
(***************************************************************************)
EXTENDS Naturals, FiniteSets

CONSTANTS Modes,   \* modes the application asks for: subset of {"once", "continuous"}
          Settled, \* TRUE: nothing is called between a one-shot set and its thread's end
          MayFail, \* TRUE: pthread_create may fail
          MaxSets  \* bound: calls of edt_set_event_func

ASSUME EventFuncsAssumption ==
  /\ Modes \subseteq {"once", "continuous"}
  /\ Settled \in BOOLEAN /\ MayFail \in BOOLEAN
  /\ MaxSets \in Nat

Threads == 1 .. MaxSets   \* the thread of the n-th set call
NoThread == 0
NoFunc == 0               \* callback = NULL; else the number of its set call

VARIABLES
  handler,    \* edt_p->event_funcs[event_type]
  registered, \* driver: the event function is registered
  pending,    \* driver: the event happened and no wait has returned for it
  thread,     \* step each event thread is at
  func,       \* callback each thread has read
  tmp,        \* thread number each thread has saved
  sets,       \* set calls so far
  pc, op, mode, \* the application: step, call in progress and its mode
  alive,      \* edt_p has not been freed
  fired,      \* (history) times the newest callback has run, 2 for more
  failed,     \* (history) a pthread_create failed
  faults      \* illegal steps committed

driver == <<registered, pending>>
threads == <<thread, func, tmp>>
app == <<sets, pc, op, mode, alive>>
history == <<fired, failed, faults>>
vars == <<handler, driver, threads, app, history>>

Cleared == [active |-> FALSE, callback |-> NoFunc, continuous |-> FALSE,
            thrdid |-> NoThread, owner |-> FALSE]

Init ==
  /\ handler = Cleared /\ registered = FALSE /\ pending = FALSE
  /\ thread = [t \in Threads |-> "none"]
  /\ func = [t \in Threads |-> NoFunc] /\ tmp = [t \in Threads |-> NoThread]
  /\ sets = 0 /\ pc = "idle" /\ op = "none" /\ mode = "once" /\ alive = TRUE
  /\ fired = 0 /\ failed = FALSE /\ faults = {}

Fault(f, when) == IF when THEN faults \cup {f} ELSE faults

-----------------------------------------------------------------------------
(* The event happens.                                                       *)
Event ==
  /\ registered /\ ~pending
  /\ pending' = TRUE
  /\ UNCHANGED <<handler, registered, threads, app, history>>

-----------------------------------------------------------------------------
(* edt_wait_event_thread.  Every step that looks at the handler is a use of *)
(* edt_p, which edt_close may have freed.                                   *)
At(t, step) == thread[t] = step
Go(t, step) == thread' = [thread EXCEPT ![t] = step]
Touch == faults' = Fault("freed", ~alive)

Loop(t) ==
  /\ At(t, "loop")
  /\ Go(t, IF handler.active THEN "wait" ELSE "exit")
  /\ Touch
  /\ UNCHANGED <<handler, driver, func, tmp, app, fired, failed>>

Wake(t) ==
  /\ At(t, "wait") /\ (pending \/ ~registered)
  /\ pending' = FALSE
  /\ Go(t, "check")
  /\ UNCHANGED <<handler, registered, func, tmp, app, history>>

(* Faulty variant: only continuous functions are called.                    *)
CheckContinuous(t) ==
  /\ At(t, "check")
  /\ IF handler.active /\ handler.continuous
     THEN Go(t, "call") /\ func' = [func EXCEPT ![t] = handler.callback]
     ELSE Go(t, "after") /\ UNCHANGED func
  /\ Touch
  /\ UNCHANGED <<handler, driver, tmp, app, fired, failed>>

Check(t) ==
  /\ At(t, "check")
  /\ IF handler.active /\ handler.callback # NoFunc
     THEN Go(t, "call") /\ func' = [func EXCEPT ![t] = handler.callback]
     ELSE Go(t, "after") /\ UNCHANGED func
  /\ Touch
  /\ UNCHANGED <<handler, driver, tmp, app, fired, failed>>

Callback(t) ==
  /\ At(t, "call")
  /\ Go(t, "after")
  /\ fired' = IF func[t] = sets /\ fired < 2 THEN fired + 1 ELSE fired
  /\ func' = [func EXCEPT ![t] = NoFunc]
  /\ UNCHANGED <<handler, driver, tmp, app, failed, faults>>

(* Faulty variant: the mode is not looked at.                               *)
AfterLoop(t) ==
  /\ At(t, "after")
  /\ Go(t, "loop")
  /\ Touch
  /\ UNCHANGED <<handler, driver, func, tmp, app, fired, failed>>

After(t) ==
  /\ At(t, "after")
  /\ Go(t, IF handler.continuous THEN "loop" ELSE "delete")
  /\ Touch
  /\ UNCHANGED <<handler, driver, func, tmp, app, fired, failed>>

(* One-shot: the registration is deleted through p->owner.                  *)
Delete(t) ==
  /\ At(t, "delete")
  /\ registered' = FALSE /\ pending' = FALSE
  /\ Go(t, "clear")
  /\ faults' = Fault("owner", ~handler.owner) \cup Fault("freed", ~alive)
  /\ UNCHANGED <<handler, func, tmp, app, fired, failed>>

(* tmp = p->thrdid and edt_clear_event_func, then p->thrdid = tmp.           *)
Clear(t) ==
  /\ At(t, "clear")
  /\ tmp' = [tmp EXCEPT ![t] = handler.thrdid]
  /\ handler' = Cleared
  /\ Go(t, "restore")
  /\ Touch
  /\ UNCHANGED <<driver, func, app, fired, failed>>

Restore(t) ==
  /\ At(t, "restore")
  /\ handler' = [handler EXCEPT !.thrdid = tmp[t]]
  /\ tmp' = [tmp EXCEPT ![t] = NoThread]
  /\ Go(t, "exit")
  /\ Touch
  /\ UNCHANGED <<driver, func, app, fired, failed>>

-----------------------------------------------------------------------------
(* The application's calls.                                                 *)
Running(t) == thread[t] \notin {"none", "exit", "joined"}

(* A caller that waits out its one-shot events calls nothing before the     *)
(* thread has ended.                                                        *)
MayCall ==
  /\ pc = "idle" /\ alive
  /\ Settled /\ mode = "once" => \A t \in Threads : ~Running(t)

(* Faulty variant: a thread that ran for an earlier event is not joined.    *)
CallSetWithoutJoin(m) ==
  /\ MayCall /\ sets < MaxSets
  /\ op' = "set" /\ mode' = m
  /\ pc' = IF handler.active /\ handler.callback # NoFunc THEN "deactivate" ELSE "fill"
  /\ UNCHANGED <<handler, driver, threads, sets, alive, history>>

CallSet(m) ==
  /\ MayCall /\ sets < MaxSets
  /\ op' = "set" /\ mode' = m
  /\ pc' = IF handler.active /\ handler.callback # NoFunc THEN "deactivate"
           ELSE IF handler.thrdid # NoThread THEN "join" ELSE "fill"
  /\ UNCHANGED <<handler, driver, threads, sets, alive, history>>

CallRemove ==
  /\ MayCall
  /\ op' = "remove"
  /\ pc' = IF handler.active THEN "deactivate" ELSE "return"
  /\ UNCHANGED <<handler, driver, threads, sets, mode, alive, history>>

(* edt_close removes the event functions and frees edt_p.                   *)
CallClose ==
  /\ MayCall
  /\ op' = "close"
  /\ pc' = IF handler.active THEN "deactivate" ELSE "return"
  /\ UNCHANGED <<handler, driver, threads, sets, mode, alive, history>>

Deactivate ==
  /\ pc = "deactivate"
  /\ handler' = [handler EXCEPT !.active = FALSE]
  /\ pc' = "unregister"
  /\ UNCHANGED <<driver, threads, sets, op, mode, alive, history>>

(* Faulty variants: the thread is not waited for; the event stays           *)
(* registered, so that nothing wakes the thread.                            *)
UnregisterWithoutJoin ==
  /\ pc = "unregister"
  /\ registered' = FALSE /\ pending' = FALSE
  /\ pc' = "reset"
  /\ UNCHANGED <<handler, threads, sets, op, mode, alive, history>>
UnregisterForgotten ==
  /\ pc = "unregister"
  /\ pc' = "remove join"
  /\ UNCHANGED <<handler, driver, threads, sets, op, mode, alive, history>>

Unregister ==
  /\ pc = "unregister"
  /\ registered' = FALSE /\ pending' = FALSE
  /\ pc' = "remove join"
  /\ UNCHANGED <<handler, threads, sets, op, mode, alive, history>>

(* pthread_join(p->thrdid): waits for a thread that exists and has not been *)
(* joined, is undefined otherwise.                                          *)
Joinable(t) == t \in Threads /\ thread[t] # "none" /\ thread[t] # "joined"

Join ==
  /\ pc \in {"join", "remove join"}
  /\ LET t == handler.thrdid IN
       IF Joinable(t)
       THEN thread[t] = "exit" /\ Go(t, "joined") /\ UNCHANGED faults
       ELSE faults' = faults \cup {"join"} /\ UNCHANGED thread
  /\ pc' = IF pc = "join" THEN "fill" ELSE "reset"
  /\ UNCHANGED <<handler, driver, func, tmp, sets, op, mode, alive, fired, failed>>

Reset ==
  /\ pc = "reset"
  /\ handler' = Cleared
  /\ pc' = IF op = "set" THEN "fill" ELSE "return"
  /\ UNCHANGED <<driver, threads, sets, op, mode, alive, history>>

(* edt_set_event_func goes on: the handler is filled in, the event          *)
(* registered and the thread created.                                       *)
Fill ==
  /\ pc = "fill"
  /\ sets' = sets + 1 /\ fired' = 0
  /\ handler' = [active |-> TRUE, callback |-> sets + 1, continuous |-> (mode = "continuous"),
                 thrdid |-> handler.thrdid, owner |-> TRUE]
  /\ pc' = "register"
  /\ UNCHANGED <<driver, threads, op, mode, alive, failed, faults>>

Register ==
  /\ pc = "register"
  /\ registered' = TRUE
  /\ pc' = "create"
  /\ UNCHANGED <<handler, pending, threads, sets, op, mode, alive, history>>

Create ==
  /\ pc = "create"
  /\ handler' = [handler EXCEPT !.thrdid = sets]
  /\ Go(sets, "loop")
  /\ pc' = "return"
  /\ UNCHANGED <<driver, func, tmp, sets, op, mode, alive, history>>

CreateFails ==
  /\ pc = "create" /\ MayFail
  /\ failed' = TRUE
  /\ pc' = "return"
  /\ UNCHANGED <<handler, driver, threads, sets, op, mode, alive, fired, faults>>

Return ==
  /\ pc = "return"
  /\ alive' = (op # "close")
  /\ pc' = "idle" /\ op' = "none"
  /\ UNCHANGED <<handler, driver, threads, sets, mode, history>>

-----------------------------------------------------------------------------
ThreadStep(t) ==
  \/ Loop(t) \/ Wake(t) \/ Check(t) \/ Callback(t) \/ After(t)
  \/ Delete(t) \/ Clear(t) \/ Restore(t)

Call == (\E m \in Modes : CallSet(m)) \/ CallRemove \/ CallClose

CallStep ==
  \/ Deactivate \/ Unregister \/ Join \/ Reset
  \/ Fill \/ Register \/ Create \/ CreateFails \/ Return

Next == Event \/ (\E t \in Threads : ThreadStep(t)) \/ Call \/ CallStep

(* Threads run, callbacks return, and a call goes on once it has begun.     *)
Fairness == (\A t \in Threads : WF_vars(ThreadStep(t))) /\ WF_vars(CallStep)

Spec == Init /\ [][Next]_vars
FairSpec == Spec /\ Fairness

-----------------------------------------------------------------------------
Handlers == [active : BOOLEAN, callback : 0 .. MaxSets, continuous : BOOLEAN,
             thrdid : 0 .. MaxSets, owner : BOOLEAN]

(* Type of every variable.                                                  *)
TypeOK ==
  /\ handler \in Handlers /\ registered \in BOOLEAN /\ pending \in BOOLEAN
  /\ thread \in [Threads -> {"none", "loop", "wait", "check", "call", "after", "delete",
                             "clear", "restore", "exit", "joined"}]
  /\ func \in [Threads -> 0 .. MaxSets] /\ tmp \in [Threads -> 0 .. MaxSets]
  /\ sets \in 0 .. MaxSets
  /\ pc \in {"idle", "deactivate", "unregister", "join", "remove join", "reset", "fill",
             "register", "create", "return"}
  /\ op \in {"none", "set", "remove", "close"} /\ mode \in {"once", "continuous"}
  /\ alive \in BOOLEAN /\ fired \in 0 .. 2 /\ failed \in BOOLEAN
  /\ faults \subseteq {"freed", "owner", "join"}

(* "If another thread has run for this event, wait for it.  Otherwise it    *)
(* stays alive": no two threads share the handler, and none that ended is   *)
(* left unjoined but the one the handler names.                             *)
OneThreadPerHandler ==
  \A t, u \in Threads :
    Joinable(t) /\ Joinable(u) => t = u

(* When edt_remove_event_func or edt_close has returned, no callback runs   *)
(* and none will: the application may free what the callback uses.          *)
NoCallbackAfterRemove ==
  \A t \in Threads :
    At(t, "call") => func[t] = sets /\ (alive \/ pc # "idle") /\ handler.callback = sets

(* A callback set for one event runs once at most.                          *)
OnceFiresOnce == mode = "once" /\ pc = "idle" => fired <= 1

(* No thread uses a freed or cleared handler, and only threads that can be  *)
(* joined are, as long as every thread could be created.                    *)
HandlerUsedSafely == failed \/ faults = {}

(* Every call returns: the join finds its thread ending.                    *)
CallsReturn == pc # "idle" ~> pc = "idle"

(* An event that happens while its function is set runs the callback,       *)
(* unless the application calls the library again meanwhile.                *)
EventsReachCallback ==
  (pending /\ fired = 0 /\ pc = "idle" /\ ~failed) ~> (fired > 0 \/ pc # "idle")
=============================================================================
