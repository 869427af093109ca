------------------------------ MODULE MCPoller ------------------------------
(* Poller for TLC: addresses are interchangeable, and so are descriptors.  *)
EXTENDS Poller, TLC

Symmetry == Permutations(Addresses) \cup Permutations(Fds)
=============================================================================
