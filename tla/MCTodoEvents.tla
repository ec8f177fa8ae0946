---------------------------- MODULE MCTodoEvents ----------------------------
(* Instances of TodoEvents for TLC.                                         *)
EXTENDS TodoEvents, TLC

WithNats    == {TRUE}
WithoutNats == {FALSE}
Either      == BOOLEAN

NoFaults == {}
AnyFault == {"crash", "loss"}

\* For the runs without liveness, and with NATS: Alone is no replica of its own.
Symmetry == Permutations(Replicas) \cup Permutations(Writers) \cup Permutations(Streams)

=============================================================================
