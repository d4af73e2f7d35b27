----------------------------- MODULE Transfers ------------------------------
(***************************************************************************)
(* What an application does with a ring besides configuring it             *)
(* (edtApp/lib/libedt.c): single transfers by edt_read and edt_write, each *)
(* of which configures a ring of one buffer and disables it again; buffers *)
(* taken in turn for output; buffers set to another size.  RingConfig has  *)
(* the memory; here are the sizes the library and the driver keep for it.  *)
(*                                                                         *)
(* One thread.  Sizes are even and counted in units; the direction is that *)
(* of the call.  The board is external: it moves some of the bytes until   *)
(* all are there, a timeout, or edt_user_dma_wakeup.                       *)
(***************************************************************************)
EXTENDS RingConfig

CONSTANTS Sizes,       \* sizes of buffers and of transfers
          Headers,     \* sizes of the header of a block's buffers
          Granularity, \* buffer_granularity
          MaxHanded    \* bound: buffers handed out for output, or skipped

ASSUME TransfersAssumption ==
  /\ Sizes \subseteq Nat \ {0} /\ Headers \subseteq Nat
  /\ Granularity \in Nat \ {0} /\ MaxHanded \in Nat

VARIABLES
  header, before, \* edt_p->header_size; header_offset is negative
  size,      \* argument bufsize of the call
  full,      \* edt_p->fullbufsize
  allocated, \* edt_p->rb_control[i].allocated_size
  room,      \* bytes there are from the start of buffer i to its end
  headed,    \* (history) buffers with a header before them in the slot
  drvsize,   \* driver: bytes it may transfer into or out of buffer i
  nextwbuf,  \* edt_p->nextwbuf
  handed,    \* (history) buffers handed out since the ring was set up, or Lost
  shot,      \* the single transfer: step
  result,    \* bytes it counts
  moved,     \* (history) bytes it has moved
  timeouts, timecount, \* driver: timeouts since edt_open; bytes at the last
  late       \* (history) a timeout of an earlier call, or a wake-up, is in the way

layout == <<header, before, full>>
extent == <<allocated, room, headed, drvsize>>
turn == <<nextwbuf, handed>>
single == <<shot, result, moved, late>>
board == <<timeouts, timecount>>
more == <<layout, size, extent, turn, single, board>>

Lost == -1  \* the ring has changed under the buffers handed out

InitTransfers ==
  /\ Init
  /\ header = 0 /\ before = FALSE /\ size = 0 /\ full = 0
  /\ allocated = [i \in Slots |-> 0] /\ room = [i \in Slots |-> 0] /\ drvsize = [i \in Slots |-> 0]
  /\ headed = {}
  /\ nextwbuf = 0 /\ handed = 0
  /\ shot = "none" /\ result = 0 /\ moved = 0 /\ late = FALSE
  /\ timeouts = 0 /\ timecount = 0

Between == pc = "idle" /\ shot = "none"

-----------------------------------------------------------------------------
(* Configuration with sizes.  edt_configure_ring_buffers leaves the header  *)
(* an earlier edt_configure_block_buffers_mem has set.                      *)
Configure(n, h, s) ==
  /\ Between /\ CallConfigure(n, h) /\ size' = IF pc' = "idle" THEN 0 ELSE s
  /\ \/ h # "user_mem" /\ UNCHANGED <<header, before>>
     \/ h # "bufarray" /\ header' \in Headers /\ before' \in BOOLEAN /\ (before' => header' > 0)
  /\ UNCHANGED <<full, extent, turn, single, board>>

edt_get_total_bufsize(s) ==
  Granularity * ((header + s + Granularity - 1) \div Granularity)

(* Faulty variant: the turn goes on from where it was.                      *)
NumberKeepsTurn ==
  /\ SetNumbufs
  /\ full' = IF how = "bufarray" THEN full ELSE edt_get_total_bufsize(size)
  /\ handed' = 0 /\ UNCHANGED nextwbuf
  /\ UNCHANGED <<header, before, size, extent, single, board>>

(* nextwbuf is reset; the full size is that of the library's last           *)
(* allocation, also when the application brings the buffers.                *)
Number ==
  /\ SetNumbufs
  /\ full' = IF how = "bufarray" THEN full ELSE edt_get_total_bufsize(size)
  /\ nextwbuf' = 0 /\ handed' = 0
  /\ UNCHANGED <<header, before, size, extent, single, board>>

(* A buffer that is detached has no size in the driver; the size kept for a *)
(* slot is not read while the slot is empty, and 0 stands for it.           *)
Detach ==
  /\ drvsize' = [i \in Slots |-> IF attached'[i] = Null THEN 0 ELSE drvsize[i]]
  /\ room' = [i \in Slots |-> IF ring'[i] = Null THEN 0 ELSE room[i]]
  /\ headed' = {i \in headed : ring'[i] # Null}
  /\ allocated' = [i \in Slots |-> IF ring'[i] = Null THEN 0 ELSE allocated[i]]

KeepSize == size' = IF pc' = "idle" /\ shot = "none" THEN 0 ELSE size

Memory ==
  /\ DisableOld \/ FreeBase \/ Allocate \/ AllocateFails \/ Finish \/ Map \/ MapFails
  /\ Detach /\ KeepSize /\ UNCHANGED <<layout, turn, single, board>>

Room == IF how = "bufarray" THEN size ELSE IF before /\ ~mmap THEN full - header ELSE full

SizeBuffer ==
  /\ Attach \/ AttachFails
  /\ allocated' = [allocated EXCEPT ![index] = IF full # 0 THEN full ELSE size]
  /\ room' = [room EXCEPT ![index] = Room]
  /\ headed' = IF before THEN headed \cup {index} ELSE headed \ {index}
  /\ drvsize' = [drvsize EXCEPT ![index] = IF pc' = "idle" THEN @ ELSE size]
  /\ KeepSize /\ UNCHANGED <<layout, turn, single, board>>

(* edt_add_ring_buffer: a buffer the application brings is taken to be as   *)
(* large as those of the last configuration.                                *)
AddBuffer(mine, s) ==
  LET i == Min(FreeSlots) IN
  /\ Between /\ Add(mine)
  /\ allocated' = [allocated EXCEPT ![i] = IF mine \/ full = 0 THEN s ELSE full]
  /\ room' = [room EXCEPT ![i] = s] /\ headed' = headed \ {i}
  /\ drvsize' = [drvsize EXCEPT ![i] = IF attached' = attached THEN @ ELSE s]
  /\ handed' = Lost
  /\ UNCHANGED <<layout, size, nextwbuf, single, board>>

Application ==
  /\ Between
  /\ (\E on \in Modes : SetMmap(on)) \/ CallDisable \/ CloseConfigured \/ CloseOther
  /\ Detach /\ UNCHANGED <<layout, size, turn, single, board>>

(* Faulty variant: compared with the size of the largest buffer.            *)
SizeUnchecked(i, s) ==
  /\ Between /\ ring[i] # Null /\ \E j \in Slots : s <= allocated[j] \/ s <= full
  /\ drvsize' = [drvsize EXCEPT ![i] = s]
  /\ UNCHANGED <<vars, layout, size, allocated, room, headed, turn, single, board>>

(* A size beyond what was allocated is refused, and one for no buffer.      *)
edt_set_buffer_size(i, s) ==
  /\ Between /\ ring[i] # Null /\ s <= allocated[i]
  /\ drvsize' = [drvsize EXCEPT ![i] = s]
  /\ UNCHANGED <<vars, layout, size, allocated, room, headed, turn, single, board>>

-----------------------------------------------------------------------------
(* Output in turn.  An application asks for the next buffer of a ring that  *)
(* it has configured: without one the remainder is by zero.                 *)
edt_next_writebuf ==
  /\ Between /\ promised > 0 /\ handed < MaxHanded
  /\ nextwbuf' = (nextwbuf + 1) % numbufs
  /\ handed' = IF handed = Lost THEN Lost ELSE handed + 1
  /\ UNCHANGED <<vars, layout, size, extent, single, board>>

(* Recovery: the driver is to go on with this buffer.                       *)
edt_set_buffer(n) ==
  /\ Between
  /\ nextwbuf' = IF numbufs > 0 THEN n % numbufs ELSE nextwbuf
  /\ handed' = IF promised > 0 THEN n ELSE handed
  /\ UNCHANGED <<vars, layout, size, extent, single, board>>

-----------------------------------------------------------------------------
(* edt_read and edt_write.                                                  *)
Shoot(s) ==
  /\ Between /\ CallConfigure(1, "library") /\ size' = s
  /\ shot' = "configure" /\ late' = (timeouts > 0)
  /\ UNCHANGED <<layout, extent, turn, result, moved, board>>

Refused ==
  /\ shot = "configure" /\ pc = "idle" /\ rc = -1
  /\ shot' = "none" /\ late' = FALSE /\ size' = 0
  /\ UNCHANGED <<vars, layout, extent, turn, result, moved, board>>

StartShot ==
  /\ shot = "configure" /\ pc = "idle" /\ rc = 0
  /\ shot' = "wait"
  /\ UNCHANGED <<vars, layout, size, extent, turn, result, moved, late, board>>

(* The wait ends; a timeout is counted with the bytes there are.            *)
WaitShot ==
  /\ shot = "wait" /\ shot' = "woken"
  /\ \/ moved' = drvsize[0] /\ UNCHANGED <<board, late>>
     \/ /\ moved' \in 0 .. drvsize[0] /\ timeouts' = 1 /\ timecount' = moved' /\ late' = FALSE
     \/ moved' \in 0 .. drvsize[0] /\ late' = TRUE /\ UNCHANGED board
  /\ UNCHANGED <<vars, layout, size, extent, turn, result>>

(* Faulty variant: the count in any case but for a timeout.                 *)
CountSwapped ==
  /\ shot = "woken" /\ shot' = "copy"
  /\ result' = IF timeouts = 0 THEN timecount ELSE size
  /\ UNCHANGED <<vars, layout, size, extent, turn, moved, late, board>>

(* edt_timeouts is cumulative, and then the count is that of the last       *)
(* timeout, of whatever transfer.                                           *)
CountShot ==
  /\ shot = "woken" /\ shot' = "copy"
  /\ result' = IF timeouts > 0 THEN timecount ELSE size
  /\ UNCHANGED <<vars, layout, size, extent, turn, moved, late, board>>

(* The bytes are copied and the ring is disabled.                           *)
EndShot ==
  /\ shot = "copy" /\ Disable
  /\ shot' = "none" /\ result' = 0 /\ moved' = 0 /\ late' = FALSE /\ size' = 0
  /\ Detach /\ UNCHANGED <<mode, pc, call, clean, layout, turn, board>>

-----------------------------------------------------------------------------
NextTransfers ==
  \/ \E n \in Numbers, h \in Hows, s \in Sizes : Configure(n, h, s)
  \/ Number \/ Memory \/ SizeBuffer
  \/ \E mine \in BOOLEAN, s \in Sizes : AddBuffer(mine, s)
  \/ Application
  \/ \E i \in Slots, s \in Sizes : edt_set_buffer_size(i, s)
  \/ edt_next_writebuf \/ \E n \in 0 .. MaxHanded : edt_set_buffer(n)
  \/ \E s \in Sizes : Shoot(s)
  \/ Refused \/ StartShot \/ WaitShot \/ CountShot \/ EndShot

SpecTransfers == InitTransfers /\ [][NextTransfers]_<<vars, more>>

-----------------------------------------------------------------------------
(* edt_read and edt_write count the bytes that this transfer has moved, and *)
(* copy them out of, or have put them into, memory that is there and large  *)
(* enough.  The count is another when a timeout happened since edt_open, or *)
(* a wake-up cut the transfer short.                                        *)
TransferExact ==
  shot = "copy" =>
    /\ Live(ring[0]) /\ size <= room[0]
    /\ ~late => result = moved

(* Buffers are handed out for output in the order in which the driver sends *)
(* them, from the first after a configuration or from the one it was set    *)
(* to, as long as the ring is not extended meanwhile; and only buffers of   *)
(* the ring are.                                                            *)
NextBufferInTurn ==
  Between /\ promised > 0 =>
    /\ nextwbuf < numbufs
    /\ handed # Lost => nextwbuf = handed % drvbufs
    /\ nextwbuf < promised => Live(ring[nextwbuf])

(* "Attempt to set size greater than allocated": the driver never transfers *)
(* beyond a buffer of the library's, whatever sizes, headers and buffers    *)
(* came before.  With headers before the buffers the allocated size counts  *)
(* the header; that of the application's buffers is the library's last.     *)
SizesFit ==
  \A i \in 0 .. numbufs - 1 :
    ring[i].block \in Blocks /\ attached[i] = (IF Mapped(ring[i]) THEN At(Kernel, i) ELSE ring[i]) =>
      drvsize[i] <= room[i] \/ i \in headed
=============================================================================
