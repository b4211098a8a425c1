-------------------------- MODULE MCOutboundQueue --------------------------
(* Finite instances of OutboundQueue: threads and messages are model values. *)
EXTENDS OutboundQueue, TLC

\* Messages and threads are interchangeable; only safety is checked with it.
Symmetric == Permutations(Threads) \cup Permutations(Msgs)

=============================================================================
