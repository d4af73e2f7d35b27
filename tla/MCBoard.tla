------------------------------- MODULE MCBoard -------------------------------
(* A small instance of Board, with the calls of libedt.                      *)
EXTENDS Board, CallEffects

Pll(n, m, v, r) == [n |-> n, m |-> m, v |-> v, r |-> r]
OnePll == {Pll(37, 6, 1, 4)}
SomeFrequencies == {49, 399, 401}
CallsHere == LibedtCalls
NoneOrAll == {[r \in Regs |-> {}], [r \in Regs |-> Bits[r]]}
=============================================================================
