--------------------------- MODULE MCSyncLifecycle ---------------------------
(* Instances of SyncLifecycle for TLC. *)
EXTENDS SyncLifecycle, FiniteSetsExt, TLC

CONSTANTS j1, j2, w1, w2

OneRow == [j \in Jobs |-> 1]
NoRows == [j \in Jobs |-> 0]

AllFaults == FaultKinds
\* Deliveries are repeated or lost with the container.
Redelivery == {"crash", "redeliver"}
Connection == {"connection"}

\* Bound: deliveries, as many as one job has attempts and repetitions.
FewDeliveries ==
  MapThenSumSet(LAMBDA j : attempts[j], Jobs) <= 1 + MaxRetries + MaxFaults

Symmetry == Permutations(Jobs) \cup Permutations(Workers)

=============================================================================
