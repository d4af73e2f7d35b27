---------------------------- MODULE ImageStream -----------------------------
(***************************************************************************)
(* What an application may expect of the ring-buffer calls of libedt: the  *)
(* board captures images, numbered 1, 2, ..., and every call that succeeds *)
(* delivers a captured image that is newer than all delivered before.      *)
(* Images may be skipped (a reader that is late, an aborted transfer) but  *)
(* never come back.                                                        *)
(***************************************************************************)
EXTENDS Naturals

VARIABLES captured,  \* images the board has completed
          delivered  \* the newest image handed to the application

vars == <<captured, delivered>>

Init == captured = 0 /\ delivered = 0

Capture == captured' = captured + 1 /\ UNCHANGED delivered

Deliver == delivered' \in (delivered + 1) .. captured /\ UNCHANGED captured

Next == Capture \/ Deliver

Spec == Init /\ [][Next]_vars
=============================================================================
