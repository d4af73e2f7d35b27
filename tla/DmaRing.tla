------------------------------ MODULE DmaRing -------------------------------
(***************************************************************************)
(* The ring-buffer half of libedt (edtApp/lib/libedt.c): the driver fills  *)
(* a ring of DMA buffers and counts the buffers done; the library keeps    *)
(* its own count of the buffers it has handed out in edt_p->donecount; the *)
(* calls below relate the two.  Every ioctl and every assignment to edt_p  *)
(* after it is a step of its own, because the board and other threads run  *)
(* between them and libedt takes no lock.                                  *)
(*                                                                         *)
(* The driver is external: it is modelled from the ioctls the library      *)
(* issues and what the library does with their results.                    *)
(***************************************************************************)
EXTENDS Integers

CONSTANTS NumBufs,     \* ring_buffer_numbufs after edt_configure_ring_buffers
          CountMax,    \* largest bufcnt_t, all ones: 2^32 - 1 in the code
          Counts,      \* counts passed to edt_wait_for_buffers and edt_check_for_buffers
          Starts,      \* counts passed to edt_start_buffers; 0 is free running
          ResetTo,     \* numbers passed to edt_reset_ring_buffers
          Interrupts,  \* what may end a wait early: subset of {"timeout", "wakeup"}
          OneThread,   \* TRUE: reader and controller calls never overlap
          MayClose,    \* TRUE: the controller may call edt_close
          MaxCaptured, \* bound: images the board captures
          MaxNumber    \* bound: largest buffer number started or waited for

ASSUME DmaRingAssumption ==
  /\ NumBufs \in Nat \ {0}
  /\ CountMax \in Nat
  /\ Counts \subseteq Nat \ {0}
  /\ Starts \subseteq Nat
  /\ ResetTo \subseteq Nat
  /\ Interrupts \subseteq {"timeout", "wakeup"}
  /\ OneThread \in BOOLEAN /\ MayClose \in BOOLEAN
  /\ MaxCaptured \in Nat /\ MaxNumber \in Nat

Slots == 0 .. NumBufs - 1
NoSlot == -1          \* a NULL pointer
Empty == 0            \* a buffer nothing was transferred to
Partial == -1         \* a buffer a transfer is writing, or was cancelled in

VARIABLES
  done,      \* driver: buffers completed (EDTG_BUFDONE)
  todo,      \* driver: buffers it may complete (EDTG_TODO)
  free,      \* driver: free running
  active,    \* driver: a transfer into slot done % NumBufs is in progress
  image,     \* content of each ring buffer: the number of an image, Empty or Partial
  captured,  \* images completed since the start
  numbufs,   \* edt_p->ring_buffer_numbufs
  attached,  \* edt_p->ring_buffers[i] # NULL
  donecount, \* edt_p->donecount
  alive,     \* edt_p has not been freed
  rpc, rcall, target, seen, status, ret,  \* the reader: step, call, locals, result
  delivered, \* (history) newest image a successful call has handed out
  interrupted, \* (history) a wait was cut short and the counts not reset since
  cpc, bufnum, \* the controller: step, local
  faults     \* illegal steps committed

driver  == <<done, todo, free, active, image, captured>>
library == <<numbufs, attached, donecount, alive>>
reader  == <<rpc, rcall, target, seen, status, ret>>
history == <<delivered, interrupted>>
control == <<cpc, bufnum>>
vars == <<driver, library, reader, history, control, faults>>

Slot(n) == n % NumBufs
(* Number of the image that buffer number n holds, as long as the driver    *)
(* has numbered buffers without a break since.                              *)
ImageOf(n) == captured - done + n

Init ==
  /\ done = 0 /\ todo = 0 /\ free = FALSE /\ active = FALSE
  /\ image = [s \in Slots |-> Empty] /\ captured = 0
  /\ numbufs = NumBufs /\ attached = TRUE /\ donecount = 0 /\ alive = TRUE
  /\ rpc = "idle" /\ rcall = "none" /\ target = 0 /\ seen = 0
  /\ status = "ok" /\ ret = NoSlot
  /\ delivered = 0 /\ interrupted = FALSE
  /\ cpc = "idle" /\ bufnum = 0
  /\ faults = {}

-----------------------------------------------------------------------------
(* The board.                                                               *)
BeginDma ==
  /\ ~active /\ attached
  /\ done < todo \/ free
  /\ captured < MaxCaptured /\ done < MaxNumber
  /\ active' = TRUE
  /\ image' = [image EXCEPT ![Slot(done)] = Partial]
  /\ UNCHANGED <<done, todo, free, captured, library, reader, history, control, faults>>

Complete ==
  /\ done' = done + 1 /\ captured' = captured + 1 /\ active' = FALSE
  /\ image' = [image EXCEPT ![Slot(done)] = captured + 1]

EndDma ==
  /\ active /\ Complete
  /\ UNCHANGED <<todo, free, library, reader, history, control, faults>>

-----------------------------------------------------------------------------
(* The reader: a thread that takes images out of the ring.                  *)
Idle == rpc = "idle" /\ (OneThread => cpc = "idle") /\ alive

(* A step that uses edt_p after another thread has freed it.                *)
Touch == faults' = IF alive THEN faults ELSE faults \cup {"freed"}

(* Faulty variants: the count taken as an absolute number; one buffer too   *)
(* many waited for.                                                         *)
BeginWaitAbsolute(n) == rpc' = "blocked" /\ target' = n /\ UNCHANGED ret
BeginWaitTooLong(n) == rpc' = "blocked" /\ target' = donecount + n + 1 /\ UNCHANGED ret

(* edt_wait_for_buffers up to EDTS_WAITBUF.                                  *)
BeginWait(n) ==
  IF numbufs = 0
  THEN rpc' = "returned" /\ ret' = NoSlot /\ UNCHANGED target
  ELSE rpc' = "blocked" /\ target' = donecount + n /\ UNCHANGED ret

CallWait(n) ==
  /\ Idle /\ rcall' = "wait" /\ seen' = n
  /\ donecount + n <= MaxNumber
  /\ BeginWait(n)
  /\ UNCHANGED <<driver, library, status, history, control, faults>>

(* edt_last_buffer: the done count is fetched first, donecount read after.  *)
CallLast ==
  /\ Idle /\ donecount < MaxNumber
  /\ rcall' = "last" /\ rpc' = "last" /\ seen' = done
  /\ UNCHANGED <<driver, library, target, status, ret, history, control, faults>>

LastDelta ==
  /\ rpc = "last"
  /\ BeginWait(IF seen = donecount THEN 1 ELSE seen - donecount)
  /\ Touch
  /\ UNCHANGED <<driver, library, rcall, seen, status, history, control>>

(* edt_check_for_buffers: target and index are computed, dividing by        *)
(* numbufs; with fewer buffers done it returns NULL, else it calls          *)
(* edt_wait_for_buffers, which reads donecount again.                       *)
CallCheck(n) ==
  /\ Idle /\ donecount + n <= MaxNumber
  /\ rcall' = "check" /\ rpc' = "check"
  /\ target' = donecount + n /\ seen' = n
  /\ faults' = IF numbufs = 0 THEN faults \cup {"division"} ELSE faults
  /\ UNCHANGED <<driver, library, status, ret, history, control>>

CheckDone ==
  /\ rpc = "check"
  /\ IF done >= target
     THEN BeginWait(seen)
     ELSE rpc' = "returned" /\ ret' = NoSlot /\ UNCHANGED target
  /\ Touch
  /\ UNCHANGED <<driver, library, rcall, seen, status, history, control>>

(* edt_wait_for_next_buffer: waits for the buffer after those done now.     *)
CallNext ==
  /\ Idle /\ done < MaxNumber
  /\ rcall' = "next"
  /\ IF numbufs = 0
     THEN rpc' = "returned" /\ ret' = NoSlot /\ UNCHANGED target
     ELSE rpc' = "blocked" /\ target' = done + 1 /\ UNCHANGED ret
  /\ UNCHANGED <<driver, library, seen, status, history, control, faults>>

(* EDTS_WAITBUF returns: enough buffers are done, or the wait was ended by  *)
(* a timeout or by edt_user_dma_wakeup.  A timeout aborts the transfer, and *)
(* DMA does not go on by itself; whether the buffer cut short counts as     *)
(* done is the driver's choice.  With edt_set_timeout_ok nothing is aborted.*)
WaitDone ==
  /\ rpc = "blocked" /\ done >= target
  /\ rpc' = "woken" /\ status' = "ok"
  /\ UNCHANGED <<driver, library, rcall, target, seen, ret, history, control, faults>>

WaitTimeout ==
  /\ rpc = "blocked" /\ done < target /\ "timeout" \in Interrupts
  /\ rpc' = "woken" /\ status' = "timeout"
  /\ \/ active /\ Complete
     \/ active' = FALSE /\ UNCHANGED <<done, captured, image>>
  /\ todo' = done' /\ free' = FALSE
  /\ interrupted' = TRUE
  /\ UNCHANGED <<library, rcall, target, seen, ret, delivered, control, faults>>

WaitTimeoutOk ==
  /\ rpc = "blocked" /\ done < target /\ "timeout" \in Interrupts
  /\ rpc' = "woken" /\ status' = "expired"
  /\ interrupted' = TRUE
  /\ UNCHANGED <<driver, library, rcall, target, seen, ret, delivered, control, faults>>

WaitWakeup ==
  /\ rpc = "blocked" /\ done < target /\ "wakeup" \in Interrupts
  /\ rpc' = "woken" /\ status' = "wakeup"
  /\ interrupted' = TRUE
  /\ UNCHANGED <<driver, library, rcall, target, seen, ret, delivered, control, faults>>

(* edt_wait_for_buffers after the wait: the count moves on for a completed  *)
(* or a timed-out wait only; edt_wait_for_next_buffer moves it in any case. *)
TakeCount ==
  /\ rpc = "woken"
  /\ Touch
  /\ donecount' = IF rcall = "next" \/ status \in {"ok", "timeout"} THEN target ELSE donecount
  /\ rpc' = "counted"
  /\ UNCHANGED <<driver, numbufs, attached, alive, rcall, target, seen, status, ret,
                 history, control>>

(* "avoid error if close happened in another thread": numbufs is tested,    *)
(* then read again for the index.                                           *)
TestClosed ==
  /\ rpc = "counted"
  /\ Touch
  /\ IF numbufs = 0 /\ rcall # "next"
     THEN rpc' = "returned" /\ ret' = NoSlot
     ELSE rpc' = "index" /\ UNCHANGED ret
  /\ UNCHANGED <<driver, library, rcall, target, seen, status, history, control>>

(* Faulty variant: the buffer after it.                                     *)
SlotAfter(n) == n % NumBufs

(* (donecount - 1) % ring_buffer_numbufs in unsigned arithmetic.            *)
SlotBefore(n) == IF n = 0 THEN CountMax % NumBufs ELSE (n - 1) % NumBufs

TakeSlot ==
  /\ rpc = "index"
  /\ faults' = faults \cup (IF alive THEN {} ELSE {"freed"})
                     \cup (IF numbufs = 0 /\ rcall # "next" THEN {"division"} ELSE {})
  /\ ret' = IF attached THEN SlotBefore(IF rcall = "next" THEN target ELSE donecount) ELSE NoSlot
  /\ delivered' = IF status = "ok" /\ attached /\ ~interrupted THEN ImageOf(donecount) ELSE delivered
  /\ rpc' = "returned"
  /\ UNCHANGED <<driver, library, rcall, target, seen, status, interrupted, control>>

(* The application has looked at the result.                                *)
UseResult ==
  /\ rpc = "returned"
  /\ rpc' = "idle" /\ rcall' = "none" /\ ret' = NoSlot /\ target' = 0 /\ seen' = 0
  /\ status' = "ok"
  /\ UNCHANGED <<driver, library, history, control, faults>>

-----------------------------------------------------------------------------
(* The controller: a thread that starts, stops, resets and closes.          *)
Controls == cpc = "idle" /\ (OneThread => rpc = "idle") /\ alive

CallStart(n) ==
  /\ Controls /\ attached
  /\ IF n = 0 THEN free' = TRUE /\ UNCHANGED todo
              ELSE /\ todo' = n + (IF todo < done THEN done ELSE todo)
                   /\ todo' <= MaxNumber /\ todo' - done <= MaxCaptured - captured
                   /\ UNCHANGED free
  /\ UNCHANGED <<done, active, image, captured, library, reader, history, control, faults>>

(* EDTS_STOPBUF: finish_current = 1 lets the transfer in progress end,      *)
(* 0 cancels it.                                                            *)
CallStop ==
  /\ Controls
  /\ free' = FALSE /\ todo' = IF active THEN done + 1 ELSE done
  /\ UNCHANGED <<done, active, image, captured, library, reader, history, control, faults>>

(* edt_reset_ring_buffers, edt_abort_dma (restart at the buffer done count) *)
(* and edt_abort_current_dma (at the one after it): the number is taken     *)
(* first, then the transfer cancelled, the driver renumbered and at last    *)
(* the library's count set.                                                 *)
CallReset ==
  /\ Controls
  /\ bufnum' \in ResetTo \cup {done, done + 1}
  /\ bufnum' <= MaxNumber
  /\ cpc' = "cancel"
  /\ UNCHANGED <<driver, library, reader, history, faults>>

(* Faulty variant: the transfer in progress is not cancelled.               *)
CancelPendingOnly ==
  /\ cpc = "cancel"
  /\ free' = FALSE /\ todo' = done
  /\ cpc' = IF numbufs = 0 THEN "idle" ELSE "set"
  /\ UNCHANGED <<done, active, image, captured, library, reader, history, bufnum, faults>>

Cancel ==
  /\ cpc = "cancel"
  /\ active' = FALSE /\ free' = FALSE /\ todo' = done
  /\ cpc' = IF numbufs = 0 THEN "idle" ELSE "set"
  /\ UNCHANGED <<done, image, captured, library, reader, history, bufnum, faults>>

SetBuffer ==
  /\ cpc = "set"
  /\ done' = bufnum /\ todo' = bufnum
  /\ cpc' = "count"
  /\ UNCHANGED <<free, active, image, captured, library, reader, history, bufnum, faults>>

SetCount ==
  /\ cpc = "count"
  /\ donecount' = bufnum
  /\ cpc' = "idle" /\ bufnum' = 0 /\ interrupted' = FALSE
  /\ UNCHANGED <<driver, numbufs, attached, alive, reader, delivered, faults>>

(* edt_close: the buffers are detached and freed, then numbufs cleared, and *)
(* edt_p is freed.                                                          *)
CallClose ==
  /\ Controls /\ MayClose
  /\ attached' = FALSE /\ active' = FALSE /\ free' = FALSE /\ todo' = done
  /\ cpc' = "clear"
  /\ UNCHANGED <<done, image, captured, numbufs, donecount, alive, reader, history, bufnum, faults>>

ClearNumbufs ==
  /\ cpc = "clear"
  /\ numbufs' = 0
  /\ cpc' = "free"
  /\ UNCHANGED <<driver, attached, donecount, alive, reader, history, bufnum, faults>>

FreeDevice ==
  /\ cpc = "free"
  /\ alive' = FALSE
  /\ cpc' = "closed"
  /\ UNCHANGED <<driver, numbufs, attached, donecount, reader, history, bufnum, faults>>

-----------------------------------------------------------------------------
Board == BeginDma \/ EndDma

WaitCutShort == WaitTimeout \/ WaitTimeoutOk \/ WaitWakeup

ReaderCall ==
  \/ \E n \in Counts : CallWait(n) \/ CallCheck(n)
  \/ CallLast \/ CallNext

ReaderStep ==
  LastDelta \/ CheckDone \/ WaitDone \/ TakeCount \/ TestClosed \/ TakeSlot \/ UseResult

ControlCall == (\E n \in Starts : CallStart(n)) \/ CallStop \/ CallReset \/ CallClose

ControlStep == Cancel \/ SetBuffer \/ SetCount \/ ClearNumbufs \/ FreeDevice

Next == Board \/ ReaderCall \/ ReaderStep \/ WaitCutShort \/ ControlCall \/ ControlStep

(* Threads inside a call keep running, the board ends the transfers it has  *)
(* begun and begins those it may.  Nothing has to cut a wait short: without *)
(* a timeout set, waits are unbounded.                                      *)
Fairness == WF_vars(Board) /\ WF_vars(ReaderStep) /\ WF_vars(ControlStep)

Spec == Init /\ [][Next]_vars
FairSpec == Spec /\ Fairness

-----------------------------------------------------------------------------
Contents == {Empty, Partial} \cup 1 .. MaxCaptured

(* Type of every variable.                                                  *)
TypeOK ==
  /\ done \in Nat /\ todo \in Nat /\ free \in BOOLEAN /\ active \in BOOLEAN
  /\ image \in [Slots -> Contents] /\ captured \in 0 .. MaxCaptured
  /\ numbufs \in {0, NumBufs} /\ attached \in BOOLEAN /\ donecount \in Nat /\ alive \in BOOLEAN
  /\ rpc \in {"idle", "last", "check", "blocked", "woken", "counted", "index", "returned"}
  /\ rcall \in {"none", "wait", "last", "check", "next"}
  /\ target \in Nat /\ seen \in Nat
  /\ status \in {"ok", "timeout", "expired", "wakeup"}
  /\ ret \in Slots \cup {NoSlot} /\ delivered \in Int /\ interrupted \in BOOLEAN
  /\ cpc \in {"idle", "cancel", "set", "count", "clear", "free", "closed"}
  /\ bufnum \in Nat
  /\ faults \subseteq {"freed", "division"}

(* A call that ends with status EDT_WAIT_OK and a buffer returns one whose  *)
(* transfer completed; unless the board has come round the ring to it again *)
(* the buffer holds the image of the number the library now counts.  After  *)
(* an interrupted wait this needs edt_reset_ring_buffers or an abort first. *)
ReturnsCompletedBuffer ==
  rpc = "returned" /\ status = "ok" /\ ret # NoSlot /\ ~interrupted =>
    /\ donecount \in 1 .. done
    /\ done < donecount + NumBufs - 1 => image[ret] = ImageOf(donecount)

(* edt_ring_buffer_overrun: as long as it says FALSE, every image completed *)
(* since the last one handed out is intact in its buffer, with the driver   *)
(* possibly writing the next.                                               *)
OverrunLate == done > donecount + numbufs   \* faulty variant: one buffer too late
Overrun == done >= donecount + numbufs
OverrunSound ==
  cpc = "idle" /\ ~Overrun =>
    \A n \in donecount + 1 .. done : image[Slot(n - 1)] = ImageOf(n)

(* The library never counts a buffer the board has not completed: were      *)
(* donecount ahead of the driver, every later wait would skip images.  An   *)
(* interrupted wait puts it ahead; a reset brings the counts together again.*)
CountsAgree ==
  /\ cpc = "idle" /\ ~interrupted => donecount <= done
  /\ cpc = "count" => bufnum = done

(* The inductive invariant behind the counts and the stream, for calls made *)
(* by one thread: a call of the reader and one of the controller exclude    *)
(* each other; a reset in progress keeps the board still; what the reader   *)
(* has handed out is not newer than the image its count stands for, and     *)
(* older from the wait on until it is handed over.                          *)
Exclusive == rpc # "idle" => cpc = "idle"
BoardStill ==
  /\ cpc \in {"set", "count"} => ~active /\ ~free /\ todo = done
  /\ cpc = "count" => bufnum = done
CountsMatch ==
  cpc \in {"idle", "cancel"} /\ ~interrupted =>
    donecount <= done /\ delivered <= ImageOf(donecount)
CallAhead ==
  ~interrupted =>
    /\ rpc = "last" => seen >= donecount
    /\ rpc = "check" => seen > 0
    /\ rpc \in {"blocked", "woken"} => target > donecount
    /\ rpc = "woken" => target <= done /\ status = "ok"
    /\ rpc \in {"counted", "index"} => delivered < ImageOf(donecount)
StreamInv == Exclusive /\ BoardStill /\ CountsMatch /\ CallAhead /\ delivered <= captured

(* With one thread the calls implement the abstract image stream: apart     *)
(* from those between an interrupted wait and the next reset, every success *)
(* delivers a newer image.                                                  *)
Stream == INSTANCE ImageStream
ImplementsImageStream == Stream!Spec

(* edt_wait_for_buffers(n) returns when n buffers beyond those handed out   *)
(* have been released to the board.                                         *)
WaitOnStartedEnds ==
  (rpc = "blocked" /\ rcall = "wait" /\ donecount + seen <= todo) ~> rpc # "blocked"

(* The comment at 2515, "avoid error if close happened in another thread":  *)
(* a close while a reader waits does not make the reader use a freed device *)
(* or divide by a cleared number of buffers.                                *)
CloseIsSafe == faults = {}
=============================================================================
