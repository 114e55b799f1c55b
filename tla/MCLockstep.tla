----------------------------- MODULE MCLockstep -----------------------------
(* Lockstep on short runs, with the messages a broken peer may send.        *)
EXTENDS Lockstep

\* What is refused for its contents, and what is refused for its place.
Odd == {"Garbled", "HELLO", "ACK"}

\* A fault that may happen need not: the runs in between are among those of All.
NoneOrAll == {{}, FaultKinds}

=============================================================================
