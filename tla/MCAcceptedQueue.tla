-------------------------- MODULE MCAcceptedQueue --------------------------
EXTENDS AcceptedQueueInv, TLC

CONSTANTS n1, n2, b1, b2, d1, d2

MCRequests == {[batch |-> b1, digest |-> d1], [batch |-> b1, digest |-> d2],
               [batch |-> b2, digest |-> d1]}
MCBudget == n1 :> 1 @@ n2 :> 2

Workload(p, e, f, m, r) ==
    [proposals |-> p, elections |-> e, faults |-> f, maintenance |-> m, reads |-> r]

MCWorkloads == {Workload(2, 1, 0, 0, 0), Workload(1, 2, 0, 0, 0),
                Workload(1, 1, 0, 0, 1), Workload(1, 0, 1, 1, 0)}

\* The history that QueueInv asks for, computed from the log.
Past[k \in 0..commit] == IF k = 0 THEN EmptyDurable ELSE After(Past[k - 1], log[k], k)
QueueInvHolds == QueueInv([k \in 0..commit |-> Past[k]])
=============================================================================
