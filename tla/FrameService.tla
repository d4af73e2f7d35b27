---------------------------- MODULE FrameService ----------------------------
(***************************************************************************)
(* What the spectrometer plugin promises about its frames, whatever it     *)
(* computes from them and however many workers it has: an offered frame    *)
(* waits in order or is dropped for good; a worker serves one frame at a   *)
(* time; while it serves a frame it may send that frame's BLD packet, once *)
(* and never again.                                                        *)
(***************************************************************************)
EXTENDS Naturals, Sequences

CONSTANTS Servers, MaxOffers

VARIABLES offered,  \* number of frames offered so far; a frame is its number
          waiting,  \* accepted frames, oldest first
          serving,  \* per server, the frame it serves or 0
          sent      \* frames whose packet was sent, in the order of sending

vars == <<offered, waiting, serving, sent>>

Init ==
  /\ offered = 0
  /\ waiting = <<>>
  /\ serving = [s \in Servers |-> 0]
  /\ sent = <<>>

Offer ==
  /\ offered < MaxOffers
  /\ offered' = offered + 1
  /\ waiting' \in {waiting, Append(waiting, offered + 1)}
  /\ UNCHANGED <<serving, sent>>

Take(s) ==
  /\ serving[s] = 0 /\ waiting # <<>>
  /\ serving' = [serving EXCEPT ![s] = Head(waiting)]
  /\ waiting' = Tail(waiting)
  /\ UNCHANGED <<offered, sent>>

Send(s) ==
  /\ serving[s] # 0
  /\ \A i \in 1..Len(sent) : sent[i] # serving[s]
  /\ sent' = Append(sent, serving[s])
  /\ UNCHANGED <<offered, waiting, serving>>

Finish(s) ==
  /\ serving[s] # 0
  /\ serving' = [serving EXCEPT ![s] = 0]
  /\ UNCHANGED <<offered, waiting, sent>>

Next == Offer \/ \E s \in Servers : Take(s) \/ Send(s) \/ Finish(s)

Spec == Init /\ [][Next]_vars
=============================================================================
